---- MODULE Spec2Model ----
(***************************************************************************)
(* Container Runway: the lifecycle orchestrator of main.cpp (create,       *)
(* start, exec, pause, resume, kill, delete, state, ps, events), the       *)
(* container init it forks (container_main), the sync FIFO between them,   *)
(* the hook runner and the on-disk state directory of one container id.    *)
(*                                                                         *)
(* One container id is modelled.  Every command is one atomic action (the  *)
(* shim serialises commands): it leaves its invocation record in `last`    *)
(* until its process has exited, and the next command is issued after      *)
(* that.  The steps of the container init processes interleave freely.     *)
(***************************************************************************)
EXTENDS Naturals, Integers, FiniteSets, Sequences, TLC

\* ------------------------------------------------------------------ bounds
\* number of init processes ever forked (pids 1..MaxInits)
MaxInits == 2
\* number of hooks a bundle declares in each phase that has hooks
MaxHooks == 2
\* lines of the event log that are counted: a log of MaxLines lines or more
\* counts MaxLines
MaxLines == 3
\* the largest exit code and the largest signal number a payload ends with
MaxExit == 2
MaxSignal == 2
\* the effective uid of a caller that is not root
UserUid == 1000
\* how far below 0 and above the largest cgroup v1 share value cpu.shares is tried
ShareMargin == 3
\* the longest list of mount options
MaxOptions == 3
\* the pids of a process tree and the longest children file
MaxTreePids == 4
MaxChildren == 2
\* the most entries of mounts, of masked_paths and of readonly_paths
MaxEntries == 1
\* turns of the polling loop of wait_for_process that are counted
MaxPolls == 3

\* ------------------------------------------------------------ vocabulary
Phases == {"createRuntime", "createContainer", "prestart", "startContainer",
           "poststart", "poststop"}

Pids == 1..MaxInits

\* signals a caller of `kill` can name; "SIGOTHER" stands for every signal
\* that is neither SIGTERM nor SIGKILL
Signals == {"SIGTERM", "SIGKILL", "SIGOTHER"}

\* the annotation key of a hook phase
AnnotationKey(hook_type) == "runway.hooks." \o hook_type

\* the absent state.json
NoState == [exists |-> FALSE, status |-> "none", pid |-> 0, annotations |-> {}]

\* a ContainerState value
ContainerState(status, pid, annotations) ==
    [exists |-> TRUE, status |-> status, pid |-> pid, annotations |-> annotations]

\* the absent events.log; of an events.log the model keeps the status carried
\* by its last `state` line and the number of its lines (up to MaxLines)
NoLog == [exists |-> FALSE, lastState |-> "none", lines |-> 0]

\* a process table entry of a pid that was never forked
NoProc == [pc |-> "none", stopped |-> FALSE]

\* a fresh FIFO object: bytes buffered, bytes ever written, bytes ever read
NewPipe == [bytes |-> 0, written |-> 0, read |-> 0]

\* no hook program executed
NoHooks == [ph \in Phases |-> 0]

VARIABLES
    bundle,    \* config.json of the bundle: hooks per phase, namespaces to join
    fs,        \* <state_root>/<id>/ : dir, state (state.json), fifo, log, and the cgroup dir
    pipe,      \* the FIFO object behind sync_fifo
    proc,      \* the init processes: pid -> [pc, stopped]
    nextPid,   \* the next pid clone() hands out
    last,      \* the command invocation in progress: name, outcome, exit code, effects
    stateCmd   \* a `state` command running next to the others: its position
               \* in show_state and the ContainerState it loaded

vars == <<bundle, fs, pipe, proc, nextPid, last, stateCmd>>

\* no `state` command runs next to the others
NoStateCmd == [pc |-> "none", state |-> NoState, found |-> TRUE, saved |-> FALSE]

\* the bundles: every phase declares n hooks; the bundle lists namespaces
\* to join by path (join) or not
Bundles == [nhooks : {0, MaxHooks}, join : BOOLEAN]

\* ------------------------------------------------------------- processes
Alive(p) == proc[p].pc \notin {"none", "dead"}

\* kill(pid, 0) == 0 : the pid exists
PidExists(pid) == pid \in Pids /\ Alive(pid)

Killed_Survives(tbl, p) ==
    \* fault: the signal is not delivered
    tbl

\* the process table after pid p was killed (SIGKILL, or a fatal signal)
Killed(tbl, p) == [tbl EXCEPT ![p] = [pc |-> "dead", stopped |-> FALSE]]

\* unlink(sync_fifo): the inits blocked in open() on the old inode can never
\* be released through the path again
Orphaned(tbl) ==
    [p \in Pids |-> IF tbl[p].pc = "waiting" THEN [tbl[p] EXCEPT !.pc = "stuck"] ELSE tbl[p]]

\* ------------------------------------------------------------ state store
\* save_state: mkdir (EEXIST is fine) and truncate+write state.json
save_state(d, state) == [d EXCEPT !.dir = TRUE, !.state = state]

record_event_Truncates(d, type, detail) ==
    \* fault: the log is opened for writing, not for appending
    [d EXCEPT !.dir = TRUE,
              !.log = [exists |-> TRUE,
                       lastState |-> IF type = "state" THEN detail ELSE "none",
                       lines |-> 1]]

\* record_event: ensure_parent_directory, open in append mode, write one line
\* (the phase an `error` line names is kept in the invocation record)
record_event(d, type, detail) ==
    [d EXCEPT !.dir = TRUE,
              !.log = [exists |-> TRUE,
                       lastState |-> IF type = "state" THEN detail ELSE d.log.lastState,
                       lines |-> IF d.log.lines < MaxLines THEN d.log.lines + 1
                                 ELSE MaxLines]]

\* record_state_event
record_state_event(d, state) == record_event(d, "state", state.status)

\* rmdir(container_dir): succeeds only on an empty directory
rmdir(d) ==
    IF d.dir /\ ~d.state.exists /\ ~d.fifo /\ ~d.log.exists
    THEN [d EXCEPT !.dir = FALSE]
    ELSE d

\* cleanup_cgroups: rmdir of the cgroup directory; it fails (EBUSY) while a
\* live process is still attached, ENOENT is benign
cleanup_cgroups(d, tbl) ==
    IF \E p \in Pids : tbl[p].pc \notin {"none", "dead"}
    THEN d
    ELSE [d EXCEPT !.cgroup = FALSE]

\* ------------------------------------------------------------ hook runner
\* the for loop of run_hook_sequence: execute hooks i.. in list order and
\* stop at the first one that fails; returns <<all succeeded, hooks executed>>
HookLoop_RunsAll(outcomes, i, ran) ==
    \* fault: the loop does not stop at a failing hook
    <<\A j \in i..Len(outcomes) : outcomes[j], ran + Len(outcomes) - (i - 1)>>

RECURSIVE HookLoop(_, _, _)
HookLoop(outcomes, i, ran) ==
    IF i > Len(outcomes) THEN <<TRUE, ran>>
    ELSE IF ~outcomes[i] THEN <<FALSE, ran + 1>>
    ELSE HookLoop(outcomes, i + 1, ran + 1)

\* run_hook_sequence(hooks, state, hook_type, enforce_once = true), with the
\* outcome of each hook program (TRUE: exit 0; FALSE: non-zero exit, signal
\* death or timeout): [ok, annotations (of state afterwards), ran (hooks executed)]
run_hook_sequence_EveryTime(outcomes, annotations, hook_type) ==
    \* fault: the runway.hooks.<phase> annotation is not consulted
    LET r == HookLoop(outcomes, 1, 0) IN
    IF r[1]
    THEN [ok |-> TRUE,
          annotations |-> IF Len(outcomes) = 0 THEN annotations
                          ELSE annotations \cup {AnnotationKey(hook_type)},
          ran |-> r[2]]
    ELSE [ok |-> FALSE, annotations |-> annotations, ran |-> r[2]]

run_hook_sequence(outcomes, annotations, hook_type) ==
    IF Len(outcomes) = 0
    THEN [ok |-> TRUE, annotations |-> annotations, ran |-> 0]
    ELSE IF AnnotationKey(hook_type) \in annotations
    THEN [ok |-> TRUE, annotations |-> annotations, ran |-> 0]
    ELSE LET r == HookLoop(outcomes, 1, 0) IN
         IF r[1]
         THEN [ok |-> TRUE,
               annotations |-> annotations \cup {AnnotationKey(hook_type)},
               ran |-> r[2]]
         ELSE [ok |-> FALSE, annotations |-> annotations, ran |-> r[2]]

\* what execute_single_hook hands to the hook program of a ContainerState:
\* the JSON on its stdin (to_json writes a negative pid as 0) and the
\* OCI_CONTAINER_STATUS / OCI_CONTAINER_PID variables (std::to_string(pid))
hook_input_AlwaysCreated(state) ==
    \* fault: the status handed over is not the one of the lifecycle point
    [status |-> "created", pid |-> IF state.pid >= 0 THEN state.pid ELSE 0,
     env_status |-> "created", env_pid |-> ToString(state.pid)]

hook_input(state) ==
    [status |-> state.status, pid |-> IF state.pid >= 0 THEN state.pid ELSE 0,
     env_status |-> state.status, env_pid |-> ToString(state.pid)]

\* no hook of the phase was executed
NoInput == [status |-> "none", pid |-> 0, env_status |-> "none", env_pid |-> "none"]
NoInputs == [ph \in Phases |-> NoInput]

\* --------------------------------------------------------------- commands
\* the record of a command invocation: ok is "the transition succeeded",
\* error the phase named by the `error` event it appended ("none": it
\* appended none), exit the exit code of the runtime process, returned
\* whether the process ended at all; its effects: ran (hook programs
\* executed, per phase), sigs (signals delivered to container processes),
\* wrote (bytes written to the sync FIFO)
Invocation(cmd, ok, error, exit) ==
    [cmd |-> cmd, ok |-> ok, error |-> error, exit |-> exit, returned |-> TRUE,
     ran |-> NoHooks, seen |-> NoInputs, sigs |-> 0, wrote |-> 0]

\* an invocation after `ran` hooks of a phase were executed with `state`: the
\* hook counters, and what the hooks of the phase were given
Ran(inv, hook_type, ran, state) ==
    [inv EXCEPT !.ran[hook_type] = @ + ran,
                !.seen[hook_type] = IF ran > 0 THEN hook_input(state) ELSE @]

\* no command in progress
Idle == Invocation("none", TRUE, "none", 0)

Init ==
    /\ bundle \in Bundles
    /\ stateCmd = NoStateCmd
    /\ fs = [dir |-> FALSE, state |-> NoState, fifo |-> FALSE, log |-> NoLog, cgroup |-> FALSE]
    /\ pipe = NewPipe
    /\ proc = [p \in Pids |-> NoProc]
    /\ nextPid = 1
    /\ last = Idle

\* what an invocation is made to meet: `fail` is the step that fails ("none":
\* no step), and when that step is a hook phase, k is the hook that fails
Failures(steps) ==
    {f \in [fail : steps \cup {"none"}, k : 1..MaxHooks] :
        IF f.fail \in Phases THEN f.k <= bundle.nhooks ELSE f.k = 1}

\* the outcomes of the n hooks of a phase when hook k fails (k = 0: none)
FailingAt(n, k) == [i \in 1..n |-> i # k]

\* the hook outcomes of `hook_type` under the failure f
OutcomesOf(f, hook_type) ==
    FailingAt(bundle.nhooks, IF f.fail = hook_type THEN f.k ELSE 0)

\* ----------------------------------------------------------------- create
\* the steps of create_container that can fail, in program order; each is
\* the phase name its cleanup_failure call passes
CreateSteps == <<"createRuntime", "create", "console", "validation", "namespace",
                 "clone", "userNamespace", "consoleSocket", "cgroup",
                 "createContainer", "state", "pidFile">>

StepIndex(step) == CHOOSE i \in 1..Len(CreateSteps) : CreateSteps[i] = step

\* create got past `step` without failing / got as far as executing `step`
Passed(failed, step) == failed = "none" \/ StepIndex(failed) > StepIndex(step)
Reached(failed, step) == failed = "none" \/ StepIndex(failed) >= StepIndex(step)

\* the cleanup_failure lambda of create_container, on the disk d and the
\* process table tbl as they are when it is called
cleanup_failure(d, tbl, phase, pid) ==
    LET forked == Passed(phase, "clone")           \* pid > 0
        has_cgroup == Reached(phase, "cgroup")     \* !cgroup_relative_path.empty()
        fifo_created == Passed(phase, "create")
        state_saved == Passed(phase, "state")
        tbl1 == IF forked THEN Killed(tbl, pid) ELSE tbl
        dA == IF has_cgroup THEN cleanup_cgroups(d, tbl1) ELSE d
        dB == IF fifo_created THEN [dA EXCEPT !.fifo = FALSE] ELSE dA
        tbl2 == IF fifo_created /\ d.fifo THEN Orphaned(tbl1) ELSE tbl1
        dC == IF state_saved THEN [dB EXCEPT !.state = NoState] ELSE dB
        dD == rmdir(dC)
    IN  [fs |-> record_event(dD, "error", phase), proc |-> tbl2]

\* the inputs of create: config.json does not load ("config"), the container
\* directory cannot be made ("mkdir"), a hook fails, or the environment makes
\* a step fail.  console, validation and namespace fail with the same
\* cleanup as clone (FIFO made, nothing forked), consoleSocket with the same
\* as userNamespace (init forked, no cgroup yet): one of each class is drawn
CreateFailures ==
    Failures({"config", "mkdir", "createRuntime", "create", "clone", "userNamespace",
              "cgroup", "createContainer", "state", "pidFile"})

\* where the forked init is in container_main when create_container is done
\* (the parent never waits for it): through the setns loop and blocked in
\* open(sync_fifo, O_RDONLY), or already returned 1 because a setns failed
\* (only when the bundle lists a namespace to join)
InitProgress == {"waiting"} \cup (IF bundle.join THEN {"dead"} ELSE {})

\* create_container under the failure f; child: the forked init's progress
create_container(f, child) ==
    IF f.fail = "config" \/ (f.fail = "mkdir" /\ ~fs.dir)
    THEN /\ last' = Invocation("create", FALSE, "none", 0)
         /\ UNCHANGED <<fs, pipe, proc, nextPid>>
    ELSE
    LET pid == nextPid
        env_fail == IF f.fail \in Phases \cup {"mkdir"} THEN "none" ELSE f.fail
        creating == ContainerState("creating", 0, {"runway.version"})
        d0 == record_state_event([fs EXCEPT !.dir = TRUE], creating)
        r1 == run_hook_sequence(OutcomesOf(f, "createRuntime"),
                                creating.annotations, "createRuntime")
        created == ContainerState("created", pid,
                                  r1.annotations \cup {"runway.cgroupPath"})
        r2 == run_hook_sequence(OutcomesOf(f, "createContainer"),
                                created.annotations, "createContainer")
        failed == IF ~r1.ok THEN "createRuntime"
                  ELSE IF env_fail # "none"
                          /\ StepIndex(env_fail) < StepIndex("createContainer")
                  THEN env_fail
                  ELSE IF ~r2.ok THEN "createContainer"
                  ELSE env_fail
        forked == Passed(failed, "clone")
        d1 == IF Passed(failed, "create") THEN [d0 EXCEPT !.fifo = TRUE] ELSE d0
        d2 == IF Reached(failed, "cgroup") THEN [d1 EXCEPT !.cgroup = TRUE] ELSE d1
        state == [created EXCEPT !.annotations = r2.annotations]
        d3 == IF Passed(failed, "state")
              THEN record_state_event(save_state(d2, state), state)
              ELSE d2
        tbl == IF forked
               THEN [proc EXCEPT ![pid] = [pc |-> child, stopped |-> FALSE]]
               ELSE proc
        undo == cleanup_failure(d3, tbl, failed, pid)
        inv1 == Ran(Invocation("create", failed = "none", failed, 0),
                    "createRuntime", r1.ran, creating)
        inv2 == IF Reached(failed, "createContainer")
                THEN Ran(inv1, "createContainer", r2.ran, created)
                ELSE inv1
    IN  /\ forked => pid \in Pids
        /\ ~forked => child = "waiting"
        /\ fs' = IF failed = "none" THEN d3 ELSE undo.fs
        /\ proc' = IF failed = "none" THEN tbl ELSE undo.proc
        /\ pipe' = IF Passed(failed, "create") /\ ~fs.fifo THEN NewPipe ELSE pipe
        /\ nextPid' = IF forked THEN pid + 1 ELSE nextPid
        /\ last' = IF forked /\ failed # "none" THEN [inv2 EXCEPT !.sigs = 1] ELSE inv2

Create ==
    /\ last = Idle
    /\ \E f \in CreateFailures, child \in InitProgress : create_container(f, child)
    /\ UNCHANGED <<stateCmd, bundle>>

\* ------------------------------------------------------------------ start
StartFailures ==
    Failures({"config", "prestart", "startContainer", "open", "write", "poststart", "state"})

\* the inits blocked in open(sync_fifo, O_RDONLY)
Readers == {p \in Pids : proc[p].pc = "waiting"}

\* open(fifo, O_WRONLY) returned: every blocked reader's open() returns too
Opened(tbl) ==
    [p \in Pids |-> IF tbl[p].pc = "waiting" THEN [tbl[p] EXCEPT !.pc = "opened"] ELSE tbl[p]]

\* write(fifo_fd, "1", 1): one more byte in the FIFO
FifoWrite(pp) == [pp EXCEPT !.bytes = @ + 1, !.written = @ + 1]

\* the invocation of start that never returns: open(fifo, O_WRONLY) blocks
StartBlocked(inv) == [inv EXCEPT !.returned = FALSE]

StartAccepts_Any(status) ==
    \* fault: start goes on whatever the persisted status
    TRUE

\* the status check of start_container: state.status != "created" is an error
StartAccepts(status) ==
    status = "created"

\* start_container(id, attach = false) under the failure f
start_container(f) ==
    LET state == fs.state
        r1 == run_hook_sequence(OutcomesOf(f, "prestart"), state.annotations, "prestart")
        r2 == run_hook_sequence(OutcomesOf(f, "startContainer"), r1.annotations,
                                "startContainer")
        r3 == run_hook_sequence(OutcomesOf(f, "poststart"), r2.annotations, "poststart")
        inv1(ok, phase) == Ran(Invocation("start", ok, phase, 0), "prestart", r1.ran, state)
        inv2(ok, phase) == Ran(inv1(ok, phase), "startContainer", r2.ran,
                               state)
        inv3(ok, phase) == [Ran(inv2(ok, phase), "poststart", r3.ran,
                                [state EXCEPT !.status = "running"])
                               EXCEPT !.wrote = 1]
        running == [state EXCEPT !.status = "running", !.annotations = r3.annotations]
        stopped == [state EXCEPT !.status = "stopped", !.annotations = r2.annotations]
    IN
    IF ~state.exists
    THEN /\ last' = Invocation("start", FALSE, "none", 0)
         /\ UNCHANGED <<fs, pipe, proc>>
    ELSE IF ~StartAccepts(state.status)
    THEN /\ last' = Invocation("start", FALSE, "none", 0)
         /\ UNCHANGED <<fs, pipe, proc>>
    ELSE IF f.fail = "config"
    THEN /\ fs' = record_event(fs, "error", "config")
         /\ last' = Invocation("start", FALSE, "config", 0)
         /\ UNCHANGED <<pipe, proc>>
    ELSE IF ~r1.ok
    THEN /\ fs' = record_event(fs, "error", "prestart")
         /\ last' = inv1(FALSE, "prestart")
         /\ UNCHANGED <<pipe, proc>>
    ELSE IF ~r2.ok
    THEN /\ fs' = record_event(fs, "error", "startContainer")
         /\ last' = inv2(FALSE, "startContainer")
         /\ UNCHANGED <<pipe, proc>>
    ELSE IF ~fs.fifo \/ f.fail = "open"
    THEN \* open(fifo_path, O_WRONLY) == -1
         /\ fs' = record_event(fs, "error", "start")
         /\ last' = inv2(FALSE, "start")
         /\ UNCHANGED <<pipe, proc>>
    ELSE IF Readers = {}
    THEN \* open(fifo_path, O_WRONLY) blocks: no process has the FIFO open for reading
         /\ last' = StartBlocked(inv2(FALSE, "none"))
         /\ UNCHANGED <<fs, pipe, proc>>
    ELSE IF f.fail = "write"
    THEN \* write(fifo_fd, "1", 1) != 1, then close
         /\ fs' = record_event(fs, "error", "start")
         /\ proc' = Opened(proc)
         /\ last' = inv2(FALSE, "start")
         /\ UNCHANGED pipe
    ELSE /\ pipe' = FifoWrite(pipe)
         /\ IF ~r3.ok
            THEN /\ proc' = IF PidExists(state.pid)
                            THEN Killed(Opened(proc), state.pid)
                            ELSE Opened(proc)
                 /\ fs' = record_state_event(
                            save_state(record_event(fs, "error", "poststart"), stopped),
                            stopped)
                 /\ last' = [inv3(FALSE, "poststart") EXCEPT
                               !.sigs = IF PidExists(state.pid) THEN 1 ELSE 0]
            ELSE IF f.fail = "state"
            THEN /\ proc' = Opened(proc)
                 /\ fs' = record_event(fs, "error", "state")
                 /\ last' = inv3(FALSE, "state")
            ELSE /\ proc' = Opened(proc)
                 /\ fs' = record_state_event(save_state(fs, running), running)
                 /\ last' = inv3(TRUE, "none")

Start ==
    /\ last = Idle
    /\ \E f \in StartFailures : start_container(f)
    /\ UNCHANGED <<stateCmd, bundle, nextPid>>

\* ------------------------------------------------------------------- kill
\* the process table after kill(pid, sig) == 0: SIGKILL always terminates;
\* any other signal terminates the process (dies) or is handled, ignored or
\* left pending by it (an init of a pid namespace ignores SIGTERM)
Signalled(tbl, pid, sig, dies) ==
    IF sig = "SIGKILL" \/ (dies /\ ~tbl[pid].stopped) THEN Killed(tbl, pid) ELSE tbl

\* kill(state.pid, signal) == 0: the pid exists and the caller may signal it
KillSucceeds(pid, eperm) == PidExists(pid) /\ ~eperm

\* kill_container(id, signal).  eperm: kill() fails although the pid exists
kill_container(sig, eperm, dies) ==
    LET state == fs.state
        stopped == [state EXCEPT !.status = "stopped"]
    IN
    IF ~state.exists
    THEN /\ last' = Invocation("kill", FALSE, "none", 0)
         /\ UNCHANGED <<fs, proc>>
    ELSE IF state.status # "running" /\ state.status # "created"
    THEN /\ last' = Invocation("kill", FALSE, "none", 0)
         /\ UNCHANGED <<fs, proc>>
    ELSE IF KillSucceeds(state.pid, eperm)
    THEN /\ proc' = Signalled(proc, state.pid, sig, dies)
         /\ fs' = IF sig = "SIGKILL" \/ sig = "SIGTERM"
                  THEN record_state_event(
                         save_state(record_event(fs, "signal", sig), stopped), stopped)
                  ELSE record_event(fs, "signal", sig)
         /\ last' = [Invocation("kill", TRUE, "none", 0) EXCEPT !.sigs = 1]
    ELSE \* kill() != 0: ESRCH or EPERM
         /\ fs' = record_event(fs, "error", "signal")
         /\ last' = Invocation("kill", FALSE, "signal", 0)
         /\ UNCHANGED proc

Kill ==
    /\ last = Idle
    /\ \E sig \in Signals, eperm, dies \in BOOLEAN : kill_container(sig, eperm, dies)
    /\ UNCHANGED <<stateCmd, bundle, pipe, nextPid>>

\* ----------------------------------------------------------------- delete
DeleteFailures == Failures({"config", "poststop"})

\* what delete_container(id, force) leaves under the failure f ("config": the
\* bundle cannot be reloaded, which delete tolerates): the disk, the process
\* table and the invocation record
Deleted(force, f) ==
    LET state == fs.state
        was_running == PidExists(state.pid)
        forced == was_running /\ force
        tbl == IF forced THEN Killed(proc, state.pid) ELSE proc
        process_running == was_running /\ ~force
        stopped == [state EXCEPT !.status = "stopped"]
        d1 == IF state.status # "stopped" THEN save_state(fs, stopped) ELSE fs
        hooks_loaded == f.fail # "config"
        r == run_hook_sequence(OutcomesOf(f, "poststop"), state.annotations, "poststop")
        d2 == IF hooks_loaded
              THEN save_state(d1, [stopped EXCEPT !.annotations = r.annotations])
              ELSE d1
        d3 == [d2 EXCEPT !.fifo = FALSE, !.state = NoState, !.log = NoLog]
        inv(ok, phase) == [Invocation("delete", ok, phase, 0) EXCEPT
                             !.sigs = IF forced THEN 1 ELSE 0]
    IN
    IF ~state.exists
    THEN [fs |-> fs, proc |-> proc, last |-> Invocation("delete", FALSE, "none", 0)]
    ELSE IF state.status # "stopped" /\ process_running
    THEN [fs |-> fs, proc |-> proc, last |-> Invocation("delete", FALSE, "none", 0)]
    ELSE IF hooks_loaded /\ ~r.ok
    THEN [fs |-> record_event(d1, "error", "poststop"),
          proc |-> tbl,
          last |-> Ran(inv(FALSE, "poststop"), "poststop", r.ran, stopped)]
    ELSE [fs |-> cleanup_cgroups(rmdir(d3), tbl),
          proc |-> IF fs.fifo THEN Orphaned(tbl) ELSE tbl,
          last |-> IF hooks_loaded
                   THEN Ran(inv(TRUE, "none"), "poststop", r.ran, stopped)
                   ELSE inv(TRUE, "none")]

\* delete_container(id, force) as a command of its own
delete_container(force, f) ==
    LET r == Deleted(force, f) IN
    /\ fs' = r.fs
    /\ proc' = r.proc
    /\ last' = r.last

Delete ==
    /\ last = Idle
    /\ \E force \in BOOLEAN, f \in DeleteFailures : delete_container(force, f)
    /\ UNCHANGED <<stateCmd, bundle, pipe, nextPid>>

\* ------------------------------------------------------------------ state
\* show_state(id): kill(pid, 0) probes the init; no signal is delivered
show_state_AlwaysStops ==
    \* fault: the status is downgraded without asking whether the pid exists
    /\ fs' = IF fs.state.exists
             THEN save_state(fs, [fs.state EXCEPT !.status = "stopped"])
             ELSE fs
    /\ last' = Invocation("state", fs.state.exists, "none", 0)

show_state ==
    LET state == fs.state IN
    IF ~state.exists
    THEN /\ last' = Invocation("state", FALSE, "none", 0)
         /\ UNCHANGED fs
    ELSE /\ fs' = IF /\ state.pid \in Pids
                     /\ ~PidExists(state.pid)
                     /\ state.status # "stopped"
                  THEN save_state(fs, [state EXCEPT !.status = "stopped"])
                  ELSE fs
         /\ last' = Invocation("state", TRUE, "none", 0)

ShowState ==
    /\ last = Idle
    /\ show_state
    /\ UNCHANGED <<stateCmd, bundle, pipe, proc, nextPid>>

\* ----------------------------------------------------------- pause/resume
ProcessTree_Empty(pid) ==
    \* fault: the walk over /proc leaves out the root pid
    {}

\* the process tree of the init as collect_process_tree returns it: the init
\* pid itself is always listed (the init is the only process modelled)
ProcessTree(pid) == {pid}

\* kill(pid, sig) over the tree with sig = SIGSTOP (stop = TRUE) or SIGCONT
StopAll(tbl, pids, stop) ==
    [p \in Pids |-> IF p \in pids /\ tbl[p].pc \notin {"none", "dead"}
                    THEN [tbl[p] EXCEPT !.stopped = stop]
                    ELSE tbl[p]]

\* pause_container(id).  eperm: a kill() fails with an errno other than ESRCH
pause_container(eperm) ==
    LET state == fs.state
        pids == ProcessTree(state.pid)
        live == {p \in pids : PidExists(p)}
        paused == [state EXCEPT !.status = "paused"]
    IN
    IF ~state.exists
    THEN /\ last' = Invocation("pause", FALSE, "none", 0)
         /\ UNCHANGED <<fs, proc>>
    ELSE IF state.status = "paused" \/ state.status # "running"
    THEN /\ last' = Invocation("pause", FALSE, "none", 0)
         /\ UNCHANGED <<fs, proc>>
    ELSE IF eperm /\ live # {}
    THEN /\ fs' = record_event(fs, "error", "pause")
         /\ last' = Invocation("pause", FALSE, "pause", 0)
         /\ UNCHANGED proc
    ELSE /\ proc' = StopAll(proc, pids, TRUE)
         /\ fs' = record_state_event(save_state(fs, paused), paused)
         /\ last' = [Invocation("pause", TRUE, "none", 0) EXCEPT !.sigs = Cardinality(live)]

Pause ==
    /\ last = Idle
    /\ \E eperm \in BOOLEAN : pause_container(eperm)
    /\ UNCHANGED <<stateCmd, bundle, pipe, nextPid>>

\* resume_container(id)
resume_container(eperm) ==
    LET state == fs.state
        pids == ProcessTree(state.pid)
        live == {p \in pids : PidExists(p)}
        running == [state EXCEPT !.status = "running"]
    IN
    IF ~state.exists
    THEN /\ last' = Invocation("resume", FALSE, "none", 0)
         /\ UNCHANGED <<fs, proc>>
    ELSE IF state.status # "paused"
    THEN /\ last' = Invocation("resume", FALSE, "none", 0)
         /\ UNCHANGED <<fs, proc>>
    ELSE IF eperm /\ live # {}
    THEN /\ fs' = record_event(fs, "error", "resume")
         /\ last' = Invocation("resume", FALSE, "resume", 0)
         /\ UNCHANGED proc
    ELSE /\ proc' = StopAll(proc, pids, FALSE)
         /\ fs' = record_state_event(save_state(fs, running), running)
         /\ last' = [Invocation("resume", TRUE, "none", 0) EXCEPT !.sigs = Cardinality(live)]

Resume ==
    /\ last = Idle
    /\ \E eperm \in BOOLEAN : resume_container(eperm)
    /\ UNCHANGED <<stateCmd, bundle, pipe, nextPid>>

\* ------------------------------------------------------------------- exec
\* exec_container(options).  fail: "config" (the bundle does not load),
\* "args" (no command given), "waitpid" (waiting for the exec'd process
\* fails) or "none"; detach; code: the exit code of the exec'd process
exec_container(fail, detach, code) ==
    LET state == fs.state IN
    IF ~state.exists
    THEN /\ last' = Invocation("exec", FALSE, "none", 1)
         /\ UNCHANGED fs
    ELSE IF state.status # "running"
    THEN /\ last' = Invocation("exec", FALSE, "none", 1)
         /\ UNCHANGED fs
    ELSE IF fail \in {"config", "args"}
    THEN /\ last' = Invocation("exec", FALSE, "none", 1)
         /\ UNCHANGED fs
    ELSE IF detach
    THEN /\ fs' = record_event(fs, "exec", "pid")
         /\ last' = Invocation("exec", TRUE, "none", 0)
    ELSE IF fail = "waitpid"
    THEN /\ fs' = record_event(record_event(fs, "exec", "pid"), "error", "exec")
         /\ last' = Invocation("exec", FALSE, "exec", 1)
    ELSE /\ fs' = record_event(record_event(fs, "exec", "pid"), "execExit", "status")
         /\ last' = Invocation("exec", TRUE, "none", code)

Exec ==
    /\ last = Idle
    /\ \E fail \in {"none", "config", "args", "waitpid"}, detach \in BOOLEAN, code \in {0, 1} :
         /\ detach => code = 0
         /\ exec_container(fail, detach, code)
    /\ UNCHANGED <<stateCmd, bundle, pipe, proc, nextPid>>

\* -------------------------------------------------------------- ps, events
\* list_container_processes(id): reads state.json and /proc
list_container_processes ==
    last' = Invocation("ps", fs.state.exists, "none", 0)

Ps ==
    /\ last = Idle
    /\ list_container_processes
    /\ UNCHANGED <<stateCmd, bundle, fs, pipe, proc, nextPid>>

\* events_command(options) without --follow: prints events.log, or one
\* stats sample of the init
events_command ==
    last' = Invocation("events", fs.log.exists, "none", 0)

Events ==
    /\ last = Idle
    /\ events_command
    /\ UNCHANGED <<stateCmd, bundle, fs, pipe, proc, nextPid>>

\* --------------------------------------------------------- container init
\* container_main from read(fifo_fd, &buf, 1) on, once a writer opened the
\* FIFO: end-of-file (the writer closed, no byte left) makes it return 1; a
\* byte releases it into sethostname, the mounts, the root switch and the
\* environment, where a failing step returns 1, and then execvp(process.args)
InitRead_EofReleases(p) ==
    \* fault: the init goes on past a read() that returned no byte
    /\ proc[p].pc = "opened"
    /\ ~proc[p].stopped
    /\ proc' = [proc EXCEPT ![p].pc = "payload"]
    /\ pipe' = IF pipe.bytes > 0
               THEN [pipe EXCEPT !.bytes = @ - 1, !.read = @ + 1]
               ELSE pipe
    /\ UNCHANGED <<stateCmd, bundle, fs, nextPid, last>>

InitRead(p) ==
    /\ proc[p].pc = "opened"
    /\ ~proc[p].stopped
    /\ IF pipe.bytes > 0
       THEN /\ pipe' = [pipe EXCEPT !.bytes = @ - 1, !.read = @ + 1]
            /\ \E setup_ok \in BOOLEAN :
                 proc' = IF setup_ok THEN [proc EXCEPT ![p].pc = "payload"]
                         ELSE Killed(proc, p)
       ELSE /\ proc' = Killed(proc, p)
            /\ UNCHANGED pipe
    /\ UNCHANGED <<stateCmd, bundle, fs, nextPid, last>>

\* the payload (process.args) exits
InitExit(p) ==
    /\ proc[p].pc = "payload"
    /\ ~proc[p].stopped
    /\ proc' = Killed(proc, p)
    /\ UNCHANGED <<stateCmd, bundle, fs, pipe, nextPid, last>>

\* main returns and the runtime process exits with last.exit
Return ==
    /\ last.cmd # "none"
    /\ last.returned
    /\ last' = Idle
    /\ UNCHANGED <<stateCmd, bundle, fs, pipe, proc, nextPid>>

\* the caller gives up on a start that blocks in open() and kills it
Interrupt ==
    /\ last.cmd # "none"
    /\ ~last.returned
    /\ last' = Idle
    /\ UNCHANGED <<stateCmd, bundle, fs, pipe, proc, nextPid>>

Next ==
    \/ Create
    \/ Start
    \/ Kill
    \/ Delete
    \/ ShowState
    \/ Pause
    \/ Resume
    \/ Exec
    \/ Ps
    \/ Events
    \/ Return
    \/ Interrupt
    \/ \E p \in Pids : InitRead(p)
    \/ \E p \in Pids : InitExit(p)

Spec == Init /\ [][Next]_vars

\* ------------------------------------------------- the hook runner on its own
\* how a hook program can end: exit status 0, another exit status, death by
\* a signal, or the timeout (wait_for_process kills it and returns false)
HookResults == {"exit0", "exitN", "signalled", "timeout"}

\* execute_single_hook: true only for a hook that exited with status 0
execute_single_hook(result) == result = "exit0"

\* the outcome of each hook of a list, given how each program ends
OutcomesFrom(results) == [i \in 1..Len(results) |-> execute_single_hook(results[i])]

\* the hook lists of a phase with the way each hook program ends
HookResultLists == UNION {[1..n -> HookResults] : n \in 0..MaxHooks}

\* the hook lists of a phase with the outcome of each hook program
HookOutcomes == UNION {[1..n -> BOOLEAN] : n \in 0..MaxHooks}

\* a ContainerState that starts without hook annotations
HookInit ==
    /\ bundle = [nhooks |-> MaxHooks, join |-> FALSE]
    /\ stateCmd = NoStateCmd
    /\ fs = [dir |-> TRUE, state |-> ContainerState("creating", 0, {}), fifo |-> FALSE,
             log |-> NoLog, cgroup |-> FALSE]
    /\ pipe = NewPipe
    /\ proc = [p \in Pids |-> NoProc]
    /\ nextPid = 1
    /\ last = Idle

\* one call run_hook_sequence(hooks, state, hook_type) on the state kept in
\* fs.state; the call is recorded in `last` under the name of the phase
RunHooks(hook_type, outcomes) ==
    LET r == run_hook_sequence(outcomes, fs.state.annotations, hook_type) IN
    /\ fs' = [fs EXCEPT !.state.annotations = r.annotations]
    /\ last' = Ran(Invocation(hook_type, r.ok, "none", 0), hook_type, r.ran,
                 fs.state)
    /\ UNCHANGED <<stateCmd, bundle, pipe, proc, nextPid>>

HookNext == \E hook_type \in Phases, outcomes \in HookOutcomes : RunHooks(hook_type, outcomes)

HookSpec == HookInit /\ [][HookNext]_vars

\* ---------------------------------------------------------- the run command
\* what run adds to the signal number of a payload that a signal ended
SignalBase == 128

\* the wait status waitpid hands back for the init: WIFEXITED with
\* WEXITSTATUS n, or WIFSIGNALED with WTERMSIG n
WaitStatuses == [how : {"exited"}, n : 0..MaxExit] \cup [how : {"signaled"}, n : 1..MaxSignal]

\* the value run_container_command returns for a wait status
run_exit(status) ==
    IF status.how = "exited" THEN status.n
    ELSE IF status.how = "signaled" THEN SignalBase + status.n
    ELSE 1

\* parse_create_options fails: run returns 1 before anything is done
RunUsage ==
    /\ last = Idle
    /\ last' = Invocation("run", FALSE, "options", 1)
    /\ UNCHANGED <<stateCmd, bundle, fs, pipe, proc, nextPid>>

\* after create_container came back: load_state, the status check and
\* start_container(id, false)
RunStart ==
    /\ last.cmd = "create"
    /\ IF ~fs.state.exists \/ fs.state.status # "created"
       THEN /\ last' = Invocation("run", FALSE, "state", 1)
            /\ UNCHANGED <<fs, pipe, proc>>
       ELSE \E f \in StartFailures : start_container(f)
    /\ UNCHANGED <<stateCmd, bundle, nextPid>>

\* the ContainerState run loaded before start_container: the persisted one
\* without what start added to it
RunLoaded ==
    [fs.state EXCEPT !.annotations =
        @ \ {AnnotationKey(h) : h \in {"prestart", "startContainer", "poststart"}}]

\* waitpid(state.pid, &status, 0) returns once the init is dead (it blocks as
\* long as the init lives); then status "stopped" is saved from the state
\* loaded before start.  The wait status is kept in the record: error holds
\* how the init ended, exit holds the code or the signal number.
RunWait ==
    /\ last.cmd = "start"
    /\ last.returned
    /\ fs.state.pid \in Pids
    /\ proc[fs.state.pid].pc = "dead"
    /\ \/ /\ last' = Invocation("run", FALSE, "waitpid", 1)
          /\ UNCHANGED fs
       \/ \E status \in WaitStatuses :
            \* an init that start_container killed was ended by a signal
            /\ last.error = "poststart" => status.how = "signaled"
            /\ fs' = save_state(fs, [RunLoaded EXCEPT !.status = "stopped"])
            /\ last' = Invocation("wait", TRUE, status.how, status.n)
    /\ UNCHANGED <<stateCmd, bundle, pipe, proc, nextPid>>

\* delete_container(id, false), then the return value from the wait status
RunDelete ==
    /\ last.cmd = "wait"
    /\ \E f \in DeleteFailures :
         LET r == Deleted(FALSE, f)
             status == [how |-> last.error, n |-> last.exit]
         IN  /\ fs' = r.fs
             /\ proc' = r.proc
             /\ last' = [Invocation("run", TRUE, status.how, run_exit(status))
                            EXCEPT !.ran = r.last.ran]
    /\ UNCHANGED <<stateCmd, bundle, pipe, nextPid>>

\* run returned and the runtime process exits with last.exit
RunReturn ==
    /\ last.cmd = "run"
    /\ Return

RunNext ==
    \/ RunUsage
    \/ Create
    \/ RunStart
    \/ RunWait
    \/ RunDelete
    \/ RunReturn
    \/ \E p \in Pids : InitRead(p)
    \/ \E p \in Pids : InitExit(p)

RunSpec == Init /\ [][RunNext]_vars

\* the runtime process keeps running its own steps and an init that can read
\* the FIFO does; a payload is free never to exit
RunLive ==
    /\ RunSpec
    /\ WF_vars(RunStart \/ RunWait \/ RunDelete \/ RunReturn)
    /\ WF_vars(\E p \in Pids : InitRead(p))

\* ------------------------------------- state next to the other commands
\* show_state(id) as the steps of a process of its own, so that the commands
\* of other runtime processes fall between its load_state, its kill(pid, 0)
\* and its save_state
StateLoad ==
    /\ stateCmd.pc = "none"
    /\ stateCmd' = IF fs.state.exists
                   THEN [NoStateCmd EXCEPT !.pc = "loaded", !.state = fs.state]
                   ELSE [NoStateCmd EXCEPT !.pc = "done", !.found = FALSE]
    /\ UNCHANGED <<bundle, fs, pipe, proc, nextPid, last>>

\* state.pid != -1 && kill(state.pid, 0) != 0 && errno == ESRCH, and the
\* test of the loaded status
StateProbe ==
    /\ stateCmd.pc = "loaded"
    /\ LET state == stateCmd.state
           gone == state.pid \in Pids /\ ~PidExists(state.pid)
       IN  stateCmd' = [stateCmd EXCEPT
                          !.pc = IF gone /\ state.status # "stopped"
                                 THEN "saving" ELSE "done"]
    /\ UNCHANGED <<bundle, fs, pipe, proc, nextPid, last>>

\* state.status = "stopped"; save_state(state)
StateSave ==
    /\ stateCmd.pc = "saving"
    /\ fs' = save_state(fs, [stateCmd.state EXCEPT !.status = "stopped"])
    /\ stateCmd' = [stateCmd EXCEPT !.pc = "done", !.saved = TRUE,
                                    !.state.status = "stopped"]
    /\ UNCHANGED <<bundle, pipe, proc, nextPid, last>>

\* the state is printed and the process exits
StateExit ==
    /\ stateCmd.pc = "done"
    /\ stateCmd' = NoStateCmd
    /\ UNCHANGED <<bundle, fs, pipe, proc, nextPid, last>>

ConcurrentNext ==
    \/ Create
    \/ Start
    \/ Kill
    \/ Delete
    \/ Pause
    \/ Resume
    \/ \E p \in Pids : InitRead(p)
    \/ \E p \in Pids : InitExit(p)
    \/ Return
    \/ Interrupt
    \/ StateLoad
    \/ StateProbe
    \/ StateSave
    \/ StateExit

\* the bundle declares no hooks: what a state command undoes does not
\* depend on them
ConcurrentInit ==
    /\ Init
    /\ bundle.nhooks = 0

ConcurrentSpec == ConcurrentInit /\ [][ConcurrentNext]_vars

\* --------------------------------------------- specifications of functions
\* where a specification applies one function of the runtime to inputs and
\* no container exists: `last` holds the call, the other variables rest
NoContainer ==
    /\ bundle = [nhooks |-> 0, join |-> FALSE]
    /\ stateCmd = NoStateCmd
    /\ fs = [dir |-> FALSE, state |-> NoState, fifo |-> FALSE, log |-> NoLog, cgroup |-> FALSE]
    /\ pipe = NewPipe
    /\ proc = [p \in Pids |-> NoProc]
    /\ nextPid = 1

Rest == UNCHANGED <<stateCmd, bundle, fs, pipe, proc, nextPid>>

\* ------------------------------------------------------- state.json as JSON
RUNTIME_VERSION == "0.1.0"

\* the pid of a default-constructed ContainerState
DefaultPid == -1

\* an annotations map without entries
NoAnnotations == [k \in {} |-> ""]

\* the ContainerState structs: every field of the struct
ContainerStates ==
    [version : {"", "1.0"},
     oci_version : {"", "1.0.2"},
     id : {"demo"},
     pid : DefaultPid..MaxInits,
     status : {"creating", "created", "running", "paused", "stopped"},
     bundle_path : {"", ".", "/tmp/bundle"},
     annotations : {NoAnnotations, [k \in {"key"} |-> "value"]}]

\* the default-constructed ContainerState
DefaultState ==
    [version |-> "", oci_version |-> "", id |-> "", pid |-> DefaultPid, status |-> "",
     bundle_path |-> "", annotations |-> NoAnnotations]

\* ContainerState::to_json_object: a JSON object is a function on its keys
to_json_object_KeepsNoAnnotations(s) ==
    \* fault: the annotations are left out of the object
    [version |-> s.version, ociVersion |-> s.oci_version, id |-> s.id,
     status |-> s.status, pid |-> s.pid, bundle |-> s.bundle_path]

to_json_object(s) ==
    LET reported_version ==
            IF s.version = ""
            THEN (IF s.oci_version = "" THEN RUNTIME_VERSION ELSE s.oci_version)
            ELSE s.version
        reported_oci == IF s.oci_version = "" THEN reported_version ELSE s.oci_version
        j == [version |-> reported_version,
              ociVersion |-> reported_oci,
              id |-> s.id,
              status |-> s.status,
              pid |-> IF s.pid >= 0 THEN s.pid ELSE 0,
              bundle |-> IF s.bundle_path = "" THEN "." ELSE s.bundle_path]
    IN  IF DOMAIN s.annotations # {}
        THEN j @@ [annotations |-> s.annotations]
        ELSE j

\* the state.json an older release of the runtime wrote
legacy_to_json(s) ==
    [id |-> s.id, pid |-> s.pid, status |-> s.status, bundle_path |-> s.bundle_path]

\* ContainerState::from_json
from_json(j) ==
    LET contains(k) == k \in DOMAIN j
        version == IF contains("version") THEN j.version ELSE ""
        oci_version == IF contains("ociVersion") THEN j.ociVersion ELSE ""
    IN  [version |-> IF contains("ociVersion") /\ version = "" THEN oci_version ELSE version,
         oci_version |-> oci_version,
         id |-> j.id,
         pid |-> j.pid,
         status |-> j.status,
         bundle_path |-> IF contains("bundle") THEN j.bundle
                         ELSE IF contains("bundle_path") THEN j.bundle_path
                         ELSE "",
         annotations |-> IF contains("annotations") THEN j.annotations ELSE NoAnnotations]

\* a call and what it worked on: the struct handed in, the text of
\* state.json, the struct handed back
StateCall(cmd, state, file, loaded) ==
    [cmd |-> cmd, state |-> state, file |-> file, loaded |-> loaded]

StateInit ==
    /\ NoContainer
    /\ last = StateCall("none", DefaultState, <<>>, DefaultState)

\* save_state(s): state.json holds s.to_json()
SaveState ==
    /\ \E s \in ContainerStates :
         last' = StateCall("save_state", s, to_json_object(s), DefaultState)
    /\ Rest

\* an older release saved s
SaveLegacy ==
    /\ \E s \in ContainerStates :
         last' = StateCall("legacy", s, legacy_to_json(s), DefaultState)
    /\ Rest

\* load_state(id): from_json of the text of state.json
LoadState ==
    /\ last.cmd \in {"save_state", "legacy"}
    /\ last' = StateCall(IF last.cmd = "legacy" THEN "load_legacy" ELSE "load_state",
                         last.state, last.file, from_json(last.file))
    /\ Rest

StateNext ==
    \/ SaveState
    \/ SaveLegacy
    \/ LoadState

StateSpec == StateInit /\ [][StateNext]_vars

\* ------------------------------------------------------------ the state root
\* a path is the sequence of its pieces, every "/" a piece of its own, so
\* that size(), back() and pop_back() act on it as they do on the string
ensure_trailing_slash(path) ==
    IF path = <<>> \/ path[Len(path)] = "/" THEN path ELSE Append(path, "/")

\* if (size() > 1 && back() == '/') pop_back()
pop_slash(path) ==
    IF Len(path) > 1 /\ path[Len(path)] = "/" THEN SubSeq(path, 1, Len(path) - 1) ELSE path

RECURSIVE pop_slashes(_)
\* while (size() > 1 && back() == '/') pop_back()
pop_slashes(path) ==
    IF Len(path) > 1 /\ path[Len(path)] = "/" THEN pop_slashes(pop_slash(path)) ELSE path

fallback_state_root(euid) == <<"/", "tmp", "/", "mruntime-" \o ToString(euid)>>

default_state_root_IgnoresXdg(euid, xdg) ==
    \* fault: XDG_RUNTIME_DIR is never consulted
    IF euid = 0 THEN <<"/", "run", "/", "mruntime">> ELSE fallback_state_root(euid)

\* xdg: getenv("XDG_RUNTIME_DIR"), set or not, with its value
default_state_root(euid, xdg) ==
    IF euid = 0 THEN <<"/", "run", "/", "mruntime">>
    ELSE IF xdg.set /\ xdg.value # <<>>
    THEN ensure_trailing_slash(xdg.value) \o <<"mruntime">>
    ELSE fallback_state_root(euid)

\* case OPT_ROOT of main
opt_root(optarg) ==
    LET root_path == pop_slashes(optarg) IN
    IF root_path = <<>> THEN <<"/">> ELSE root_path

\* ensure_directory(path, 0755): whether the directory is there or can be
\* made is the environment's; creatable holds the paths for which it is
ensure_directory(path, creatable) == path # <<>> /\ path \in creatable

\* ensure_runtime_root_directory on g_global_options.root_path
ensure_runtime_root_directory(root_path0, euid, xdg, creatable) ==
    LET root_path == pop_slash(IF root_path0 = <<>>
                               THEN default_state_root(euid, xdg)
                               ELSE root_path0)
        fallback == pop_slash(fallback_state_root(euid))
    IN  IF ensure_directory(root_path, creatable)
        THEN [ok |-> TRUE, root_path |-> root_path]
        ELSE IF euid # 0 /\ fallback # root_path /\ ensure_directory(fallback, creatable)
        THEN [ok |-> TRUE, root_path |-> fallback]
        ELSE [ok |-> FALSE, root_path |-> root_path]

\* the callers, what --root carries and what XDG_RUNTIME_DIR holds
Euids == {0, UserUid}
RootFlags ==
    [given : {FALSE}, value : {<<>>}] \cup
    [given : {TRUE}, value : {<<>>, <<"/", "srv", "/", "state">>,
                              <<"/", "srv", "/", "state", "/", "/">>}]
XdgValues ==
    [set : {FALSE}, value : {<<>>}] \cup
    [set : {TRUE}, value : {<<>>, <<"/", "xdg">>, <<"/", "xdg", "/">>}]

\* the directories a state root can name
RootDirs ==
    {<<"/">>, <<"/", "srv", "/", "state">>, <<"/", "run", "/", "mruntime">>,
     <<"/", "xdg", "/", "mruntime">>} \cup
    {fallback_state_root(e) : e \in Euids}

RootInit ==
    /\ NoContainer
    /\ last = [cmd |-> "none"]

\* main up to the command dispatch: the global options, then
\* ensure_runtime_root_directory; a command runs only when that returned true
MainRoot ==
    /\ last.cmd = "none"
    /\ \E euid \in Euids, flag \in RootFlags, xdg \in XdgValues, creatable \in SUBSET RootDirs :
         LET root_path0 == IF flag.given THEN opt_root(flag.value)
                           ELSE default_state_root(euid, xdg)
             r == ensure_runtime_root_directory(root_path0, euid, xdg, creatable)
         IN  last' = [cmd |-> "main", euid |-> euid, flag |-> flag, xdg |-> xdg,
                      creatable |-> creatable, ok |-> r.ok, root_path |-> r.root_path,
                      dispatched |-> r.ok]
    /\ Rest

\* main returns: 1 when the root could not be made, else what the command gives
MainReturn ==
    /\ last.cmd = "main"
    /\ last' = [cmd |-> "none"]
    /\ Rest

RootNext ==
    \/ MainRoot
    \/ MainReturn

RootSpec == RootInit /\ [][RootNext]_vars

\* ------------------------------------------------------ cpu.shares to weight
\* the largest cgroup v1 cpu.shares value and the weight of "no shares given"
MaxCpuShares == 262144
DefaultWeight == 100

RECURSIVE MulDivMod(_, _, _)
\* quotient and remainder of x * m by d for x >= 0, in the 64 bits of a
\* long long: computed bit by bit of x, so that no intermediate value leaves
\* the range of the checker's integers
MulDivMod(x, m, d) ==
    IF x = 0 THEN [q |-> 0, r |-> 0]
    ELSE LET h == MulDivMod(x \div 2, m, d)
             t == 2 * h.r + (x % 2) * m
         IN  [q |-> 2 * h.q + (t \div d), r |-> t % d]

\* (x * m) / d of C++ on long long: the quotient is truncated towards zero
Quotient(x, m, d) ==
    IF x >= 0 THEN MulDivMod(x, m, d).q ELSE -(MulDivMod(-x, m, d).q)

cpu_shares_to_weight_NoClamp(shares) ==
    \* fault: shares above the largest value are not clamped
    IF shares <= 0 THEN DefaultWeight
    ELSE IF shares < 2 THEN 1
    ELSE 1 + Quotient(shares - 2, 9999, 262142)

\* cpu_shares_to_weight(long long shares)
cpu_shares_to_weight(shares) ==
    IF shares <= 0 THEN DefaultWeight
    ELSE IF shares < 2 THEN 1
    ELSE LET clamped == IF shares > MaxCpuShares THEN MaxCpuShares ELSE shares
         IN  1 + Quotient(clamped - 2, 9999, 262142)

\* the cpu.shares values tried: every value from below 0 to above the
\* largest one, and two far beyond it
ShareValues == (-ShareMargin)..(MaxCpuShares + ShareMargin) \cup {2^30, 2^30 + ShareMargin}

CpuInit ==
    /\ NoContainer
    /\ last = [cmd |-> "none"]

\* one call cpu_shares_to_weight(shares)
CpuWeight ==
    /\ last.cmd = "none"
    /\ \E shares \in ShareValues :
         last' = [cmd |-> "cpu_shares_to_weight", shares |-> shares,
                  weight |-> cpu_shares_to_weight(shares)]
    /\ Rest

CpuReturn ==
    /\ last.cmd = "cpu_shares_to_weight"
    /\ last' = [cmd |-> "none"]
    /\ Rest

CpuNext ==
    \/ CpuWeight
    \/ CpuReturn

CpuSpec == CpuInit /\ [][CpuNext]_vars

\* ------------------------------------------------------------ mount options
\* a flag word is the set of the MS_ bits that are set in it: `|` is the
\* union, `& ~` the difference
\* the bits an option sets in .flags
FlagsSet(opt) ==
    CASE opt = "ro" -> {"MS_RDONLY"}
      [] opt = "nosuid" -> {"MS_NOSUID"}
      [] opt = "nodev" -> {"MS_NODEV"}
      [] opt = "noexec" -> {"MS_NOEXEC"}
      [] opt = "relatime" -> {"MS_RELATIME"}
      [] opt = "strictatime" -> {"MS_STRICTATIME"}
      [] opt = "sync" -> {"MS_SYNCHRONOUS"}
      [] opt = "dirsync" -> {"MS_DIRSYNC"}
      [] opt = "remount" -> {"MS_REMOUNT"}
      [] opt = "bind" -> {"MS_BIND"}
      [] opt = "rbind" -> {"MS_BIND", "MS_REC"}
      [] opt = "recursive" -> {"MS_REC"}
      [] OTHER -> {}

\* the bits an option clears in .flags
FlagsCleared(opt) ==
    CASE opt = "rw" -> {"MS_RDONLY"}
      [] opt = "norelatime" -> {"MS_RELATIME"}
      [] opt = "nostrictatime" -> {"MS_STRICTATIME"}
      [] OTHER -> {}

\* the value an option gives .propagation
PropagationOf(opt) ==
    CASE opt = "private" -> {"MS_PRIVATE"}
      [] opt = "rprivate" -> {"MS_PRIVATE", "MS_REC"}
      [] opt = "shared" -> {"MS_SHARED"}
      [] opt = "rshared" -> {"MS_SHARED", "MS_REC"}
      [] opt = "slave" -> {"MS_SLAVE"}
      [] opt = "rslave" -> {"MS_SLAVE", "MS_REC"}
      [] opt = "unbindable" -> {"MS_UNBINDABLE"}
      [] opt = "runbindable" -> {"MS_UNBINDABLE", "MS_REC"}
      [] OTHER -> {}

FlagOptions ==
    {"ro", "rw", "nosuid", "nodev", "noexec", "relatime", "norelatime", "strictatime",
     "nostrictatime", "sync", "dirsync", "remount", "bind", "rbind", "recursive"}
PropagationOptions ==
    {"private", "rprivate", "shared", "rshared", "slave", "rslave", "unbindable",
     "runbindable"}
\* options the parser has no branch for: with a '=' and without
KeyValueOptions == {"size=64k", "mode=755"}
BareOptions == {"noatime"}
MountOptions == FlagOptions \cup PropagationOptions \cup KeyValueOptions \cup BareOptions

\* a default-constructed ParsedMountOptions, with the data_options vector
NoOptions ==
    [flags |-> {}, propagation |-> {}, has_propagation |-> FALSE,
     bind_readonly |-> FALSE, data_options |-> <<>>]

apply_option_NeverClears(parsed, opt) ==
    \* fault: rw, norelatime and nostrictatime are taken for data
    IF opt \in FlagOptions /\ FlagsCleared(opt) = {}
    THEN [parsed EXCEPT !.flags = @ \cup FlagsSet(opt)]
    ELSE IF opt \in PropagationOptions
    THEN [parsed EXCEPT !.propagation = PropagationOf(opt), !.has_propagation = TRUE]
    ELSE [parsed EXCEPT !.data_options = Append(@, opt)]

\* one turn of the loop of parse_mount_options
apply_option(parsed, opt) ==
    IF opt \in FlagOptions
    THEN [parsed EXCEPT !.flags = (@ \cup FlagsSet(opt)) \ FlagsCleared(opt)]
    ELSE IF opt \in PropagationOptions
    THEN [parsed EXCEPT !.propagation = PropagationOf(opt), !.has_propagation = TRUE]
    ELSE [parsed EXCEPT !.data_options = Append(@, opt)]

RECURSIVE join_strings(_)
\* join_strings(parts, ","): the pieces of the text, each comma a piece
join_strings(parts) ==
    IF parts = <<>> THEN <<>>
    ELSE IF Len(parts) = 1 THEN parts
    ELSE <<Head(parts), ",">> \o join_strings(Tail(parts))

RECURSIVE OptionLoop(_, _)
\* the for loop over the options, in list order
OptionLoop(parsed, options) ==
    IF options = <<>> THEN parsed
    ELSE OptionLoop(apply_option(parsed, Head(options)), Tail(options))

\* parse_mount_options(options)
parse_mount_options(options) ==
    LET parsed == OptionLoop(NoOptions, options) IN
    [flags |-> parsed.flags,
     propagation |-> parsed.propagation,
     has_propagation |-> parsed.has_propagation,
     bind_readonly |-> "MS_BIND" \in parsed.flags /\ "MS_RDONLY" \in parsed.flags,
     data |-> join_strings(parsed.data_options)]

\* the option list of the runtime's own test
TestedOptions == <<"bind", "ro", "nosuid", "size=64k", "shared">>

\* the option lists tried
OptionLists == UNION {[1..n -> MountOptions] : n \in 0..MaxOptions} \cup {TestedOptions}

MountInit ==
    /\ NoContainer
    /\ last = [cmd |-> "none"]

\* one call parse_mount_options(options)
ParseOptions ==
    /\ last.cmd = "none"
    /\ \E options \in OptionLists :
         last' = [cmd |-> "parse_mount_options", options |-> options,
                  parsed |-> parse_mount_options(options)]
    /\ Rest

ParseReturn ==
    /\ last.cmd = "parse_mount_options"
    /\ last' = [cmd |-> "none"]
    /\ Rest

MountNext ==
    \/ ParseOptions
    \/ ParseReturn

MountSpec == MountInit /\ [][MountNext]_vars

\* ------------------------------------------------------------- process tree
TreePids == 1..MaxTreePids

\* what /proc/<pid>/task/<pid>/children can hold when it is read: pids in
\* any order, repeated or not, a pid's own ancestors among them; 0 stands
\* for a number that is not > 0; the empty list also for a file that cannot
\* be opened
ChildLists == UNION {[1..n -> 0..MaxTreePids] : n \in 0..MaxChildren}

RECURSIVE Enqueue_NoVisited(_, _, _)
Enqueue_NoVisited(children, queue, visited) ==
    \* fault: a child is queued whether it was visited or not
    IF children = <<>> THEN [queue |-> queue, visited |-> visited]
    ELSE LET child == Head(children) IN
         IF child > 0
         THEN Enqueue_NoVisited(Tail(children), Append(queue, child), visited \cup {child})
         ELSE Enqueue_NoVisited(Tail(children), queue, visited)

RECURSIVE Enqueue(_, _, _)
\* while (ifs >> child) if (child > 0 && visited.insert(child).second) queue.push(child)
Enqueue(children, queue, visited) ==
    IF children = <<>> THEN [queue |-> queue, visited |-> visited]
    ELSE LET child == Head(children) IN
         IF child > 0 /\ child \notin visited
         THEN Enqueue(Tail(children), Append(queue, child), visited \cup {child})
         ELSE Enqueue(Tail(children), queue, visited)

\* a call of collect_process_tree: its argument, its locals, and the pids
\* > 0 the children files held when they were read
TreeCall(root_pid, queue, visited, result, seen) ==
    [cmd |-> "collect_process_tree", root_pid |-> root_pid, queue |-> queue,
     visited |-> visited, result |-> result, seen |-> seen]

TreeInit ==
    /\ NoContainer
    /\ last = [cmd |-> "none"]

\* collect_process_tree(root_pid) up to the while loop
TreeEnter ==
    /\ last.cmd = "none"
    /\ \E root_pid \in (-1)..MaxTreePids :
         last' = IF root_pid <= 0
                 THEN TreeCall(root_pid, <<>>, {}, <<>>, {})
                 ELSE TreeCall(root_pid, <<root_pid>>, {root_pid}, <<>>, {})
    /\ Rest

\* one turn of the while loop: pop, push_back, read the children file
TreeVisit ==
    /\ last.cmd = "collect_process_tree"
    /\ last.queue # <<>>
    /\ \E children \in ChildLists :
         LET current == Head(last.queue)
             q == Enqueue(children, Tail(last.queue), last.visited)
         IN  last' = TreeCall(last.root_pid, q.queue, q.visited,
                              Append(last.result, current),
                              last.seen \cup ({children[i] : i \in 1..Len(children)} \ {0}))
    /\ Rest

\* the queue is empty: return result
TreeReturn ==
    /\ last.cmd = "collect_process_tree"
    /\ last.queue = <<>>
    /\ last' = [cmd |-> "none"]
    /\ Rest

TreeNext ==
    \/ TreeEnter
    \/ TreeVisit
    \/ TreeReturn

TreeSpec == TreeInit /\ [][TreeNext]_vars

\* ------------------------------------------------- container_main step by step
\* what create_container hands the init in ContainerArgs, as far as it
\* decides which steps container_main takes; uts: CLONE_NEWUTS was among
\* the clone flags
SetupArgs ==
    [join : BOOLEAN, uts : BOOLEAN, propagation : BOOLEAN, enable_pivot_root : BOOLEAN,
     rootfs_readonly : BOOLEAN, terminal : BOOLEAN, env : BOOLEAN,
     mounts : 0..MaxEntries, masked_paths : 0..MaxEntries, readonly_paths : 0..MaxEntries]

\* n times the step
Times(step, n) == [i \in 1..n |-> step]

\* the step when the condition holds
When(cond, step) == IF cond THEN <<step>> ELSE <<>>

\* the steps of container_main in program order, one per system call (or
\* group of calls with one outcome) whose failure the code looks at
SetupSteps(args) ==
    When(args.join, "setns") \o
    <<"fifo_open", "fifo_read", "sethostname", "rootfs_bind">> \o
    When(args.propagation, "rootfs_propagation") \o
    <<"chdir_rootfs">> \o
    Times("mount", args.mounts) \o
    Times("masked_path", args.masked_paths) \o
    Times("readonly_path", args.readonly_paths) \o
    When(args.enable_pivot_root, "pivot_root") \o
    When(args.enable_pivot_root, "pivot_chdir") \o
    When(args.enable_pivot_root, "old_root") \o
    <<"chroot", "chroot_chdir">> \o
    When(args.propagation, "root_propagation") \o
    <<"cwd", "proc">> \o
    When(args.rootfs_readonly, "rootfs_readonly") \o
    When(args.terminal, "terminal") \o
    When(args.env, "environment") \o
    <<"execvp">>

\* the steps taken only after pivot_root succeeded, and only after it did not
AfterPivot == {"pivot_chdir", "old_root"}
WithoutPivot == {"chroot", "chroot_chdir"}

\* the steps whose failure is reported with perror and nothing else
Tolerated == {"pivot_root", "old_root", "proc", "rootfs_readonly"}

RECURSIVE SkipTo(_, _, _)
\* the next step from pc on that is taken
SkipTo(steps, pc, pivot_succeeded) ==
    IF pc > Len(steps) THEN pc
    ELSE IF \/ steps[pc] \in AfterPivot /\ ~pivot_succeeded
            \/ steps[pc] \in WithoutPivot /\ pivot_succeeded
    THEN SkipTo(steps, pc + 1, pivot_succeeded)
    ELSE pc

SetupInit ==
    /\ NoContainer
    /\ last = [cmd |-> "none"]

\* clone(container_main, ..., args): the init starts
SetupEnter ==
    /\ last.cmd = "none"
    /\ \E args \in SetupArgs :
         last' = [cmd |-> "container_main", args |-> args, pc |-> 1, step |-> "none",
                  ok |-> TRUE, done |-> {}, pivot_succeeded |-> FALSE,
                  status |-> "setup", host_renamed |-> FALSE]
    /\ Rest

\* the next step of container_main succeeds or fails
SetupStep ==
    /\ last.cmd = "container_main"
    /\ last.status = "setup"
    /\ \E ok \in BOOLEAN :
         LET steps == SetupSteps(last.args)
             step == steps[last.pc]
             pivoted == last.pivot_succeeded \/ (step = "pivot_root" /\ ok)
         IN  last' = [last EXCEPT
                 !.step = step,
                 !.ok = ok,
                 !.done = IF ok THEN @ \cup {step} ELSE @,
                 !.pivot_succeeded = pivoted,
                 !.pc = SkipTo(steps, last.pc + 1, pivoted),
                 !.host_renamed = @ \/ (step = "sethostname" /\ ok /\ ~last.args.uts),
                 !.status = IF step = "execvp" THEN (IF ok THEN "payload" ELSE "exit1")
                            ELSE IF ~ok /\ step \notin Tolerated THEN "exit1"
                            ELSE "setup"]
    /\ Rest

\* the init is gone: it returned 1, or the payload it became has exited
SetupExit ==
    /\ last.cmd = "container_main"
    /\ last.status \in {"exit1", "payload"}
    /\ last' = [cmd |-> "none"]
    /\ Rest

SetupNext ==
    \/ SetupEnter
    \/ SetupStep
    \/ SetupExit

SetupSpec == SetupInit /\ [][SetupNext]_vars

\* ------------------------------------------- the mount calls of a config mount
\* mount(source, target, fs_type, flags, data) as container_main issues it
\* for one entry of mounts: what it is for and its flags
MountCall(what, flags) == [what |-> what, flags |-> flags]

first_flags_KeepsReadonly(parsed) ==
    \* fault: MS_RDONLY stays in the flags of the initial mount
    parsed.flags \ {"MS_REMOUNT"}

\* first_flags = parsed.flags & ~MS_REMOUNT, and & ~MS_RDONLY for bind_readonly
first_flags(parsed) ==
    IF parsed.bind_readonly
    THEN (parsed.flags \ {"MS_REMOUNT"}) \ {"MS_RDONLY"}
    ELSE parsed.flags \ {"MS_REMOUNT"}

\* the mount calls of one config mount when none of them fails, in order
mount_calls(parsed) ==
    <<MountCall("mount", first_flags(parsed))>> \o
    (IF parsed.bind_readonly
     THEN <<MountCall("remount", parsed.flags \cup {"MS_REMOUNT"})>>
     ELSE IF "MS_REMOUNT" \in parsed.flags
     THEN <<MountCall("remount", parsed.flags)>>
     ELSE <<>>) \o
    (IF parsed.has_propagation
     THEN <<MountCall("propagation", parsed.propagation)>>
     ELSE <<>>)

\* the options tried on a config mount
ConfigMountOptions ==
    {"bind", "rbind", "ro", "rw", "remount", "nosuid", "shared", "size=64k"}
ConfigOptionLists == UNION {[1..n -> ConfigMountOptions] : n \in 0..MaxOptions}

ConfigMountInit ==
    /\ NoContainer
    /\ last = [cmd |-> "none"]

\* one turn of the loop over mounts in container_main, from the first mount
\* call on; fail: which of its calls fails (0: none, or one it never makes)
ConfigMount ==
    /\ last.cmd = "none"
    /\ \E options \in ConfigOptionLists, fail \in 0..3 :
         LET parsed == parse_mount_options(options)
             calls == mount_calls(parsed)
             failed == fail \in 1..Len(calls)
         IN  last' = [cmd |-> "mount", options |-> options, parsed |-> parsed,
                      calls |-> IF failed THEN SubSeq(calls, 1, fail) ELSE calls,
                      failed |-> failed,
                      status |-> IF failed THEN "exit1" ELSE "setup"]
    /\ Rest

\* the loop goes on to the next entry, or the init has returned 1
ConfigMountDone ==
    /\ last.cmd = "mount"
    /\ last' = [cmd |-> "none"]
    /\ Rest

ConfigMountNext ==
    \/ ConfigMount
    \/ ConfigMountDone

ConfigMountSpec == ConfigMountInit /\ [][ConfigMountNext]_vars

\* ------------------------------------------------------- wait_for_process
\* wait_for_process(pid, timeout_sec, status) next to the hook process it
\* waits for and the clock: child is the hook process ("none": pid is not a
\* child of the caller), expired whether steady_clock::now() has reached the
\* deadline, in_time whether the child exited before it did, polls the
\* turns of the loop so far, result the value returned ("none": not yet)
WaitCall(timeout_sec, child) ==
    [cmd |-> "wait", timeout_sec |-> timeout_sec, child |-> child,
     pc |-> IF timeout_sec <= 0 THEN "block" ELSE "poll",
     expired |-> FALSE, in_time |-> FALSE, polls |-> 0,
     result |-> "none", status |-> "none"]

Timeouts == {0, 1}

WaitInit ==
    /\ NoContainer
    /\ last = [cmd |-> "none"]

WaitEnter ==
    /\ last.cmd = "none"
    /\ \E timeout_sec \in Timeouts, child \in {"running", "none"} :
         last' = WaitCall(timeout_sec, child)
    /\ Rest

\* the hook program exits by itself
ChildExit ==
    /\ last.cmd = "wait"
    /\ last.child = "running"
    /\ last' = [last EXCEPT !.child = "zombie", !.status = "exited",
                            !.in_time = ~last.expired]
    /\ Rest

\* the clock reaches the deadline
Deadline ==
    /\ last.cmd = "wait"
    /\ last.timeout_sec > 0
    /\ last.pc # "done"
    /\ ~last.expired
    /\ last' = [last EXCEPT !.expired = TRUE]
    /\ Rest

\* timeout_sec <= 0: return waitpid(pid, &status, 0) == pid
WaitBlocking ==
    /\ last.cmd = "wait"
    /\ last.pc = "block"
    /\ last.child \in {"zombie", "none"}
    /\ last' = IF last.child = "zombie"
               THEN [last EXCEPT !.child = "reaped", !.result = "true", !.pc = "done"]
               ELSE [last EXCEPT !.result = "false", !.pc = "done"]
    /\ Rest

\* waitpid(pid, &status, WNOHANG) and the two returns after it
WaitPoll ==
    /\ last.cmd = "wait"
    /\ last.pc = "poll"
    /\ last' = IF last.child = "zombie"
               THEN [last EXCEPT !.child = "reaped", !.result = "true", !.pc = "done"]
               ELSE IF last.child = "none"
               THEN [last EXCEPT !.result = "false", !.pc = "done"]
               ELSE [last EXCEPT !.pc = "clock"]
    /\ Rest

\* if (steady_clock::now() >= deadline)
WaitClock ==
    /\ last.cmd = "wait"
    /\ last.pc = "clock"
    /\ last' = [last EXCEPT !.pc = IF last.expired THEN "kill" ELSE "sleep"]
    /\ Rest

\* sleep_for(50ms), then the next turn of the loop
WaitSleep ==
    /\ last.cmd = "wait"
    /\ last.pc = "sleep"
    /\ last' = [last EXCEPT !.pc = "poll",
                            !.polls = IF @ < MaxPolls THEN @ + 1 ELSE @]
    /\ Rest

\* kill(pid, SIGKILL): ends a running child, leaves a zombie as it is
WaitKill ==
    /\ last.cmd = "wait"
    /\ last.pc = "kill"
    /\ last' = IF last.child = "running"
               THEN [last EXCEPT !.child = "zombie", !.status = "killed", !.pc = "reap"]
               ELSE [last EXCEPT !.pc = "reap"]
    /\ Rest

\* waitpid(pid, &status, 0) after the kill; errno = ETIMEDOUT; return false
WaitReap ==
    /\ last.cmd = "wait"
    /\ last.pc = "reap"
    /\ last.child = "zombie"
    /\ last' = [last EXCEPT !.child = "reaped", !.result = "false", !.pc = "done"]
    /\ Rest

\* the caller goes on: execute_single_hook has its answer
WaitReturn ==
    /\ last.cmd = "wait"
    /\ last.pc = "done"
    /\ last' = [cmd |-> "none"]
    /\ Rest

WaitSteps ==
    \/ WaitBlocking
    \/ WaitPoll
    \/ WaitClock
    \/ WaitSleep
    \/ WaitKill
    \/ WaitReap

WaitNext ==
    \/ WaitEnter
    \/ ChildExit
    \/ Deadline
    \/ WaitSteps
    \/ WaitReturn

WaitSpec == WaitInit /\ [][WaitNext]_vars

\* the runtime keeps running and the clock keeps going; a hook program is
\* free never to exit
WaitLive == WaitSpec /\ WF_vars(WaitSteps) /\ WF_vars(Deadline)

\* ================================================================ properties
\* a step that issues the command cmd
Issued(cmd) == last = Idle /\ last'.cmd = cmd

\* the commands that only read or stop/continue processes
Observers == {"state", "ps", "events", "pause", "resume"}

\* C1: after every create that succeeds, the persisted state has status
\* "created" and a pid > 0, and the init with that pid is alive and blocked
\* in the FIFO wait.
C1_CreatedInitBlocked ==
    (last.cmd = "create" /\ last.ok) =>
        /\ fs.state.exists
        /\ fs.state.status = "created"
        /\ fs.state.pid > 0
        /\ proc[fs.state.pid].pc = "waiting"

\* C2: an init gets past the FIFO read (into the setup steps and the
\* payload) only by consuming a byte, bytes are written to the FIFO by start
\* steps only, never more are consumed than were written, and the commands
\* state, ps, events, pause and resume leave every waiting init waiting.
C2_InitWaitsForStart ==
    [][ /\ \A p \in Pids :
            /\ (proc[p].pc # "payload" /\ proc'[p].pc = "payload") =>
                   /\ proc[p].pc = "opened"
                   /\ pipe.bytes > 0
                   /\ pipe'.read = pipe.read + 1
            /\ (proc[p].pc = "waiting" /\ proc'[p].pc = "opened") => Issued("start")
            /\ (proc[p].pc = "waiting" /\ \E c \in Observers : Issued(c)) =>
                   proc'[p] = proc[p]
        /\ pipe'.written > pipe.written => Issued("start") /\ last'.wrote = 1
        /\ pipe'.read <= pipe'.written
      ]_vars

\* C2 witness: a start wrote the byte and an init consumed it and runs the payload
C2_Released ==
    /\ last.cmd = "start"
    /\ last.wrote = 1
    /\ pipe.read = 1
    /\ \E p \in Pids : proc[p].pc = "payload"

\* C3: the sync FIFO is single-shot: never more than one byte is written
\* to one FIFO and never more than one is consumed from it, and after a
\* successful start exactly one was written.
C3_SingleShot ==
    /\ pipe.written <= 1
    /\ pipe.read <= 1
    /\ (last.cmd = "start" /\ last.ok) => pipe.written = 1

\* C4: every kill with SIGTERM or SIGKILL (that the caller is allowed to
\* send) on a container whose persisted status is running or created leaves
\* the persisted status "stopped", also when the init pid no longer exists.
C4_KillStops ==
    [][ \A sig \in {"SIGTERM", "SIGKILL"}, dies \in BOOLEAN :
          ( /\ last = Idle
            /\ fs.state.exists
            /\ fs.state.status \in {"running", "created"}
            /\ kill_container(sig, FALSE, dies) )
          => fs'.state.status = "stopped"
      ]_vars

\* C5: every delete on a container whose persisted status is stopped leaves
\* no state directory, state.json, sync FIFO, event log or cgroup directory.
C5_DeleteRemovesAll ==
    [][ ( /\ Issued("delete")
          /\ fs.state.exists
          /\ fs.state.status = "stopped" )
        => ( /\ ~fs'.dir
             /\ ~fs'.state.exists
             /\ ~fs'.fifo
             /\ ~fs'.log.exists
             /\ ~fs'.cgroup )
      ]_vars

\* the statuses each status-checking command accepts
Accepts(cmd) ==
    CASE cmd = "start" -> {"created"}
      [] cmd = "exec" -> {"running"}
      [] cmd = "pause" -> {"running"}
      [] cmd = "resume" -> {"paused"}
      [] cmd = "kill" -> {"running", "created"}

\* the lifecycle edges: the persisted status goes from `from` to `to` by cmd
\* ("none": state.json is absent; a process exit is noticed by state or
\* delete, a failure by start)
Edge(from, to, cmd) ==
    \/ from = "none" /\ to = "created" /\ cmd = "create"
    \/ from = "created" /\ to = "running" /\ cmd = "start"
    \/ from = "running" /\ to = "paused" /\ cmd = "pause"
    \/ from = "paused" /\ to = "running" /\ cmd = "resume"
    \/ from \in {"created", "running"} /\ to = "stopped"
          /\ cmd \in {"kill", "state", "delete", "start"}
    \/ to = "none" /\ cmd = "delete"

\* C6: the persisted status changes only along the lifecycle edges, and
\* once it is stopped no command other than delete changes state.json.
C6_LifecycleEdges ==
    [][ /\ fs'.state.status # fs.state.status =>
              Edge(fs.state.status, fs'.state.status, last'.cmd)
        /\ (fs.state.status = "stopped" /\ fs'.state # fs.state) => Issued("delete")
      ]_vars

\* C7: a start, exec, pause, resume or kill issued when the persisted
\* status is not one it accepts fails and has no effect: state.json, the
\* processes and the FIFO are unchanged, no signal is sent, no hook is run
\* and no byte is written.
C7_WrongStatusNoEffect ==
    [][ \A cmd \in {"start", "exec", "pause", "resume", "kill"} :
          ( /\ Issued(cmd)
            /\ fs.state.exists
            /\ fs.state.status \notin Accepts(cmd) )
          => ( /\ ~last'.ok
               /\ fs'.state = fs.state
               /\ proc' = proc
               /\ pipe' = pipe
               /\ last'.sigs = 0
               /\ last'.ran = NoHooks
               /\ last'.wrote = 0 )
      ]_vars

\* C7 witness: a start was refused on a running container
C7_StartRefused ==
    /\ last.cmd = "start"
    /\ ~last.ok
    /\ fs.state.exists
    /\ fs.state.status = "running"

\* C8: every command invocation that fails exits with code 1 (exit code 0
\* only when the command's transition succeeded).
C8_FailureExitsOne ==
    (last.cmd # "none" /\ last.returned /\ ~last.ok) => last.exit = 1

\* C9: a create that fails after the state directory was made leaves the
\* init it forked dead, and no cgroup directory, sync FIFO, state.json or
\* state directory, and has emitted an error event naming the phase.
C9_CreateRollsBack ==
    [][ ( /\ Issued("create")
          /\ ~last'.ok
          /\ last'.error # "none" )
        => ( /\ \A p \in Pids : (proc[p].pc = "none" /\ proc'[p].pc # "none") =>
                                   proc'[p].pc = "dead"
             /\ ~fs'.cgroup
             /\ ~fs'.fifo
             /\ ~fs'.state.exists
             /\ ~fs'.dir )
      ]_vars

\* C10: a run_hook_sequence call for a phase whose annotation is on the
\* state succeeds without executing a hook and leaves the annotations as
\* they are; a call in which every hook of a non-empty list succeeds sets
\* the annotation; a call with an empty list succeeds, executes nothing and
\* leaves the annotations as they are.
C10_HooksAtMostOnce ==
    [][ \A hook_type \in Phases, outcomes \in HookOutcomes :
          (last'.cmd = hook_type /\ RunHooks(hook_type, outcomes)) =>
            /\ AnnotationKey(hook_type) \in fs.state.annotations =>
                  /\ last'.ok
                  /\ last'.ran = NoHooks
                  /\ fs'.state = fs.state
            /\ (Len(outcomes) > 0 /\ \A i \in 1..Len(outcomes) : outcomes[i]) =>
                  /\ last'.ok
                  /\ AnnotationKey(hook_type) \in fs'.state.annotations
            /\ Len(outcomes) = 0 =>
                  /\ last'.ok
                  /\ last'.ran = NoHooks
                  /\ fs'.state = fs.state
      ]_vars

\* C10 witness: a call for a phase whose annotation is on the state
\* succeeded and executed no hook
C10_Skipped ==
    /\ last.cmd \in Phases
    /\ last.ok
    /\ last.ran = NoHooks
    /\ AnnotationKey(last.cmd) \in fs.state.annotations

\* the hook phases in their prescribed order, and the place of a phase in it
PhaseOrder == <<"createRuntime", "createContainer", "prestart", "startContainer",
                "poststart", "poststop">>

Rank(hook_type) == CHOOSE i \in 1..Len(PhaseOrder) : PhaseOrder[i] = hook_type

\* the phases whose hooks each command runs
PhasesOf(cmd) ==
    CASE cmd = "create" -> {"createRuntime", "createContainer"}
      [] cmd = "start" -> {"prestart", "startContainer", "poststart"}
      [] cmd = "delete" -> {"poststop"}
      [] OTHER -> {}

\* C11: hook phases execute in the prescribed order.  In every command
\* step: only the command's own phases run; a phase runs hooks only when
\* every earlier phase of the command ran all its hooks or was already
\* annotated; no hook of a phase runs on a container whose state carries the
\* annotation of a later phase; the FIFO byte is written only after prestart
\* and startContainer completed, and poststart hooks run only when it was written.
C11_HookOrder ==
    [][ (last = Idle /\ last'.cmd # "none") =>
          /\ \A p \in Phases \ PhasesOf(last'.cmd) : last'.ran[p] = 0
          /\ \A p, q \in PhasesOf(last'.cmd) :
                (Rank(p) < Rank(q) /\ last'.ran[q] > 0) =>
                   \/ last'.ran[p] = bundle.nhooks
                   \/ AnnotationKey(p) \in fs.state.annotations
          /\ \A p, q \in Phases :
                (Rank(p) < Rank(q) /\ last'.ran[p] > 0) =>
                   AnnotationKey(q) \notin fs.state.annotations
          /\ last'.wrote = 1 =>
                \A p \in {"prestart", "startContainer"} :
                   \/ last'.ran[p] = bundle.nhooks
                   \/ AnnotationKey(p) \in fs.state.annotations
          /\ last'.ran["poststart"] > 0 => last'.wrote = 1
      ]_vars

\* the first hook of a list that does not exit with status 0 (0: none)
FirstFailure(results) ==
    IF \A i \in 1..Len(results) : results[i] = "exit0" THEN 0
    ELSE CHOOSE i \in 1..Len(results) :
            results[i] # "exit0" /\ \A j \in 1..(i - 1) : results[j] = "exit0"

\* C12: a run_hook_sequence call on a state without the phase's annotation
\* in which a hook exits non-zero, dies from a signal or times out returns false, has executed the hooks up to the
\* failing one and none after it, and leaves the annotations as they are;
\* and every call with a non-empty list on a state without the annotation
\* executes the first hook.
C12_FailingHookFailsPhase ==
    [][ \A hook_type \in Phases, results \in HookResultLists :
          ( /\ last'.cmd = hook_type
            /\ AnnotationKey(hook_type) \notin fs.state.annotations
            /\ RunHooks(hook_type, OutcomesFrom(results)) )
          => /\ FirstFailure(results) > 0 =>
                  /\ ~last'.ok
                  /\ last'.ran[hook_type] = FirstFailure(results)
                  /\ fs'.state = fs.state
             /\ Len(results) > 0 => last'.ran[hook_type] >= 1
      ]_vars

\* C12 witness: a phase failed at its first hook and is not annotated
C12_PhaseFailed ==
    /\ last.cmd \in Phases
    /\ ~last.ok
    /\ last.ran[last.cmd] = 1
    /\ AnnotationKey(last.cmd) \notin fs.state.annotations

\* C13: a create for an id whose state carries the createRuntime
\* annotation (an earlier create ran the createRuntime hooks) executes no
\* createRuntime hook, so two consecutive creates run the hook once in total.
C13_SecondCreateSkipsHook ==
    [][ ( /\ Issued("create")
          /\ fs.state.exists
          /\ AnnotationKey("createRuntime") \in fs.state.annotations )
        => last'.ran["createRuntime"] = 0
      ]_vars

\* C14: when a start has failed after all its prestart hooks succeeded and
\* before the FIFO byte was written (a startContainer hook failed, or the
\* FIFO could not be opened or written), so the container is still "created", the prestart call of the next start
\* (run_hook_sequence on the state as it is persisted) executes no hook.
C14_RetrySkipsPrestart ==
    ( /\ last.cmd = "start"
      /\ last.returned
      /\ ~last.ok
      /\ last.wrote = 0
      /\ last.error \in {"startContainer", "start"}
      /\ bundle.nhooks > 0
      /\ last.ran["prestart"] = bundle.nhooks
      /\ fs.state.exists
      /\ fs.state.status = "created" )
    => \A f \in StartFailures :
          run_hook_sequence(OutcomesOf(f, "prestart"), fs.state.annotations,
                            "prestart").ran = 0

C16_FailureEmitsError ==
    ( /\ last.cmd \in {"create", "start", "exec", "pause", "resume", "kill", "delete"}
      /\ last.returned
      /\ ~last.ok )
    => (last.error # "none" /\ fs.log.exists)

\* C17 as stated: the line count of the event log never decreases.
C17_LogNeverShrinks ==
    [][ fs'.log.lines >= fs.log.lines ]_vars

\* C17 amended: the line count of the event log never decreases, the log
\* never disappears and a state line it holds is never lost, except that a
\* delete that succeeds removes the log.
C17_LogShrinksOnlyByDelete ==
    [][ \/ /\ fs'.log.lines >= fs.log.lines
           /\ fs.log.exists => fs'.log.exists
           /\ fs.log.lastState # "none" => fs'.log.lastState # "none"
        \/ /\ Issued("delete")
           /\ last'.ok
           /\ fs'.log = NoLog
      ]_vars

\* C17 witness: a command that succeeded on a log that already had
\* MaxLines lines, and the log still has them
C17_LogGrown ==
    /\ last.cmd \in {"start", "kill", "pause", "resume", "exec"}
    /\ last.ok
    /\ fs.log.lines = MaxLines

\* C18: whenever no command is running and both the event log and
\* state.json exist, the status in the last state event of the log equals
\* the status in state.json.
C18_LastStateEventIsStatus ==
    (last = Idle /\ fs.log.exists /\ fs.state.exists) =>
        fs.log.lastState = fs.state.status

C20_StateOnlyDowngrades ==
    [][ Issued("state") =>
          /\ UNCHANGED <<bundle, pipe, proc, nextPid>>
          /\ last'.sigs = 0
          /\ last'.wrote = 0
          /\ last'.ran = NoHooks
          /\ IF fs.state.exists /\ ~PidExists(fs.state.pid)
             THEN fs' = [fs EXCEPT !.state.status = "stopped"]
             ELSE fs' = fs
      ]_vars

\* C20 witness: the state command found the init of a running container gone
\* and saved the status stopped
C20_Downgraded ==
    /\ last.cmd = "state"
    /\ last.ok
    /\ fs.state.status = "stopped"
    /\ fs.log.lastState = "running"
    /\ ~PidExists(fs.state.pid)

\* C21: when run gets its wait status and has called delete, it returns N
\* for an init that exited with code N and 128 + signo for an init that a
\* signal ended, and the container state directory is absent.
C21_RunPropagatesAndCleans ==
    [][ (last.cmd = "wait" /\ last'.cmd = "run") =>
          /\ last.error = "exited" => last'.exit = last.exit
          /\ last.error = "signaled" => last'.exit = SignalBase + last.exit
          /\ ~fs'.dir
      ]_vars

\* the fields C22 names are the same in two ContainerStates
SameState(a, b) ==
    /\ a.id = b.id
    /\ a.pid = b.pid
    /\ a.status = b.status
    /\ a.bundle_path = b.bundle_path
    /\ a.annotations = b.annotations

\* C22 as stated: load_state after save_state(s) gives back the id, pid,
\* status, bundle path and annotations of s, for every ContainerState s; and
\* a file with bundle_path in place of bundle loads with that bundle path.
C22_StateRoundTrip ==
    /\ last.cmd = "load_state" => SameState(last.loaded, last.state)
    /\ last.cmd = "load_legacy" => last.loaded.bundle_path = last.state.bundle_path

\* C22 amended: the round trip gives back id, status and annotations of every
\* s, the pid of every s with pid >= 0 and 0 for a negative pid, the bundle
\* path of every s with a non-empty bundle path and "." for an empty one; a
\* file with bundle_path in place of bundle loads with that bundle path.
C22_StateRoundTripNormalised ==
    /\ last.cmd = "load_state" =>
          /\ last.loaded.id = last.state.id
          /\ last.loaded.status = last.state.status
          /\ last.loaded.annotations = last.state.annotations
          /\ last.loaded.pid = (IF last.state.pid >= 0 THEN last.state.pid ELSE 0)
          /\ last.loaded.bundle_path =
                (IF last.state.bundle_path = "" THEN "." ELSE last.state.bundle_path)
    /\ last.cmd = "load_legacy" => last.loaded.bundle_path = last.state.bundle_path

\* C22 witness: a state with a pid, a bundle path and an annotation was saved
\* and loaded again
C22_Loaded ==
    /\ last.cmd = "load_state"
    /\ last.state.pid > 0
    /\ last.state.bundle_path = "/tmp/bundle"
    /\ DOMAIN last.state.annotations # {}
    /\ SameState(last.loaded, last.state)

\* the directory names of a path, without its slashes
Names(path) == SelectSeq(path, LAMBDA piece : piece # "/")

\* the state root C23 prescribes for a call of main, as directory names
C23_Preferred(c) ==
    IF c.flag.given THEN Names(c.flag.value)
    ELSE IF c.euid = 0 THEN <<"run", "mruntime">>
    ELSE IF c.xdg.set /\ c.xdg.value # <<>> THEN Names(c.xdg.value) \o <<"mruntime">>
    ELSE <<"tmp", "mruntime-" \o ToString(c.euid)>>

\* C23 helper: some creatable directory has these names
C23_CanCreate(c, names) == \E d \in c.creatable : Names(d) = names

\* C23: the state root is --root when given, else /run/mruntime for euid 0,
\* else $XDG_RUNTIME_DIR/mruntime when that is set and non-empty, else
\* /tmp/mruntime-<uid>; when that directory cannot be created a caller that is
\* not root gets /tmp/mruntime-<uid> if that can be created; otherwise the
\* failure is reported and no command runs.
C23_StateRootPrecedence ==
    last.cmd = "main" =>
        LET preferred == C23_Preferred(last)
            temp == <<"tmp", "mruntime-" \o ToString(last.euid)>>
        IN  IF C23_CanCreate(last, preferred)
            THEN last.ok /\ last.dispatched /\ Names(last.root_path) = preferred
            ELSE IF last.euid # 0 /\ C23_CanCreate(last, temp)
            THEN last.ok /\ last.dispatched /\ Names(last.root_path) = temp
            ELSE ~last.ok /\ ~last.dispatched

\* C23 witness: a caller that is not root, whose XDG directory cannot be
\* created, ends up on the /tmp fallback
C23_FellBack ==
    /\ last.cmd = "main"
    /\ last.euid # 0
    /\ ~last.flag.given
    /\ last.xdg.set /\ last.xdg.value # <<>>
    /\ last.ok
    /\ last.root_path = fallback_state_root(last.euid)

\* C24: cpu_shares_to_weight maps every shares <= 0 to 100, 1 to 1 and
\* 262144 to 10000; every result lies in 1..10000; for shares >= 1 the result
\* is 1 + ((s - 2) * 9999) / 262142 with s the shares clamped to 262144; and
\* on 1..262144 the weight of shares + 1 is never below the weight of shares.
C24_SharesToWeight ==
    last.cmd = "cpu_shares_to_weight" =>
        LET shares == last.shares
            s == IF shares > 262144 THEN 262144 ELSE shares
        IN  /\ shares <= 0 => last.weight = 100
            /\ shares = 1 => last.weight = 1
            /\ shares = 262144 => last.weight = 10000
            /\ last.weight \in 1..10000
            /\ shares >= 1 => last.weight = 1 + Quotient(s - 2, 9999, 262142)
            /\ (shares >= 1 /\ shares < 262144) =>
                  cpu_shares_to_weight(shares + 1) >= last.weight

\* C24 witness: a shares value above the largest one got the largest weight
C24_Clamped ==
    /\ last.cmd = "cpu_shares_to_weight"
    /\ last.shares > MaxCpuShares
    /\ last.weight = 10000

\* the key=value options of a list, in list order
KeyValues(text) == SelectSeq(text, LAMBDA piece : piece \in KeyValueOptions)

\* C25 helper: what the claim says of .data and of the tested list
C25_DataAndExample ==
    /\ KeyValues(last.parsed.data) = KeyValues(last.options)
    /\ last.options = TestedOptions =>
          /\ last.parsed.flags = {"MS_BIND", "MS_RDONLY", "MS_NOSUID"}
          /\ last.parsed.propagation = {"MS_SHARED"}
          /\ last.parsed.has_propagation
          /\ last.parsed.bind_readonly
          /\ last.parsed.data = <<"size=64k">>

Listed(result) == {result[i] : i \in 1..Len(result)}

\* C26: collect_process_tree lists no pid twice and lists the root first;
\* when its loop is over the list is empty for a root <= 0, and for a root
\* > 0 it holds the root and every child > 0 read from the children file of
\* every pid it holds; and the loop ends: every turn adds one pid to a list
\* that never holds more pids than there are.
C26_TreeClosed ==
    /\ [](last.cmd = "collect_process_tree" =>
            /\ \A i, j \in 1..Len(last.result) : last.result[i] = last.result[j] => i = j
            /\ Len(last.result) <= MaxTreePids
            /\ last.result # <<>> => last.result[1] = last.root_pid
            /\ last.queue = <<>> =>
                  IF last.root_pid <= 0 THEN last.result = <<>>
                  ELSE /\ last.root_pid \in Listed(last.result)
                       /\ last.seen \subseteq Listed(last.result))
    /\ [][(last.cmd = "collect_process_tree" /\ last'.cmd = "collect_process_tree") =>
            Len(last'.result) = Len(last.result) + 1]_vars

\* C26 witness: a walk over a relation with a cycle back to the root ended
\* with every pid listed once
C26_CycleWalked ==
    /\ last.cmd = "collect_process_tree"
    /\ last.queue = <<>>
    /\ Len(last.result) = MaxTreePids
    /\ last.root_pid \in last.seen

\* a step of container_main was just attempted
Attempted(steps) ==
    /\ last.cmd = "container_main"
    /\ last.step \in steps

\* C27: when the FIFO open or read, sethostname, the rootfs bind mount, a
\* config mount, chroot, a chdir, the /proc mount, the read-only remount of
\* the rootfs, the terminal setup or the environment fails, the init exits
\* with status 1 (and so never executes the payload).
C27_SetupFailureIsFatal ==
    ( /\ Attempted({"fifo_open", "fifo_read", "sethostname", "rootfs_bind", "mount",
                    "chroot", "chroot_chdir", "chdir_rootfs", "pivot_chdir", "cwd",
                    "proc", "rootfs_readonly", "terminal", "environment"})
      /\ ~last.ok )
    => last.status = "exit1"

\* C28: a failure on an entry of masked_paths or of readonly_paths does not
\* end the init: it goes on with the remaining steps.
C28_PathFailureIsSkipped ==
    (Attempted({"masked_path", "readonly_path"}) /\ ~last.ok) => last.status = "setup"

\* the place of a step in the order C29 prescribes (0: the order says nothing)
C29_Place(step) ==
    CASE step = "mount" -> 1
      [] step = "readonly_path" -> 2
      [] step \in {"pivot_root", "chroot"} -> 3
      [] step = "proc" -> 4
      [] step = "masked_path" -> 5
      [] step = "rootfs_readonly" -> 6
      [] OTHER -> 0

\* C29: a step of container_main is taken only after the steps the order
\* puts before it and before those it puts after it: config mounts,
\* readonly_paths, pivot_root or chroot, the /proc mount, masked_paths, the
\* read-only remount of the rootfs; and a masked path is applied only when
\* the root is switched and /proc is mounted.
C29_SetupOrder ==
    (last.cmd = "container_main" /\ last.ok /\ C29_Place(last.step) > 0) =>
        /\ \A before \in last.done :
              C29_Place(before) > 0 => C29_Place(before) <= C29_Place(last.step)
        /\ last.step = "masked_path" =>
              /\ last.done \cap {"pivot_root", "chroot"} # {}
              /\ "proc" \in last.done

\* C30: sethostname is called only in a new UTS namespace, and the hostname
\* of the namespace the runtime was invoked in is never changed.
C30_HostnameOnlyInNewUts ==
    last.cmd = "container_main" =>
        /\ (last.step = "sethostname" \/ "sethostname" \in last.done) => last.args.uts
        /\ ~last.host_renamed

\* C31 helper: the calls of a read-only bind mount are the initial mount
\* without MS_RDONLY and MS_REMOUNT, then the remount with
\* MS_REMOUNT|MS_BIND|MS_RDONLY, then the propagation call if a propagation
\* option was given; a call that fails is the last one and ends the init.
C31_Calls ==
    LET calls == last.calls
        n == Len(calls)
    IN  /\ n >= 1
        /\ calls[1].what = "mount"
        /\ calls[1].flags \cap {"MS_RDONLY", "MS_REMOUNT"} = {}
        /\ n >= 2 =>
              /\ calls[2].what = "remount"
              /\ {"MS_REMOUNT", "MS_BIND", "MS_RDONLY"} \subseteq calls[2].flags
        /\ n >= 3 =>
              /\ calls[3].what = "propagation"
              /\ calls[3].flags = last.parsed.propagation
        /\ IF last.failed
           THEN last.status = "exit1"
           ELSE /\ last.status = "setup"
                /\ n = (IF last.parsed.has_propagation THEN 3 ELSE 2)
        /\ n <= 3

Given(status, pid) ==
    [status |-> status, pid |-> pid, env_status |-> status, env_pid |-> ToString(pid)]

\* C32: the state on stdin and OCI_CONTAINER_STATUS / OCI_CONTAINER_PID of a
\* hook are those of the lifecycle point of its phase: createRuntime hooks
\* get creating and pid 0; createContainer hooks get created and the pid of
\* the init just forked; prestart and startContainer hooks get created and
\* the persisted init pid; poststart hooks get running; poststop hooks get
\* stopped
C32_HookInputs ==
    LET seen == last.seen IN
    /\ last.ran["createRuntime"] > 0 => seen["createRuntime"] = Given("creating", 0)
    /\ last.ran["createContainer"] > 0 =>
          /\ seen["createContainer"] = Given("created", nextPid - 1)
          /\ proc[nextPid - 1].pc # "none"
    /\ \A ph \in {"prestart", "startContainer"} :
          last.ran[ph] > 0 =>
             /\ seen[ph] = Given("created", fs.state.pid)
             /\ fs.state.pid \in Pids
             /\ proc[fs.state.pid].pc # "none"
    /\ last.ran["poststart"] > 0 =>
          seen["poststart"] = Given("running", fs.state.pid)
    /\ last.ran["poststop"] > 0 =>
          /\ seen["poststop"].status = "stopped"
          /\ seen["poststop"].env_status = "stopped"

\* a start has run the hooks of its three phases
C32_AllStartPhases ==
    /\ last.cmd = "start"
    /\ \A ph \in {"prestart", "startContainer", "poststart"} : last.ran[ph] > 0

\* wait_for_process has returned
WaitDone == last.cmd = "wait" /\ last.pc = "done"

\* a child that exited before the deadline makes the call return true with
\* the exit status of the child
C33_InTimeIsSuccess ==
    (WaitDone /\ last.timeout_sec > 0 /\ last.in_time) =>
        (last.result = "true" /\ last.status = "exited")

\* after the return no child is left running or unreaped; the call returns
\* false for a child only after killing it at the deadline or collecting it
\* after the kill
C33_NoneLeft ==
    WaitDone =>
        /\ last.child \in {"reaped", "none"}
        /\ (last.result = "false" /\ last.child = "reaped") => last.expired
        /\ last.timeout_sec <= 0 => (last.child = "reaped" <=> last.result = "true")

\* a call with a timeout > 0 returns
C33_Returns == (last.cmd = "wait" /\ last.timeout_sec > 0) ~> WaitDone

\* C33: wait_for_process with a timeout > 0 always returns: true with the
\* child's status if the child exits before the deadline, otherwise false
\* after the child was sent SIGKILL at the deadline and reaped, so that no
\* hook process is left running or unreaped; with timeout 0 it returns only
\* when the child has exited
C33_WaitForProcess ==
    /\ []C33_InTimeIsSuccess
    /\ []C33_NoneLeft
    /\ C33_Returns

\* the child exited before the deadline and the call returned false
C33_InTimeReportedAsTimeout ==
    /\ WaitDone
    /\ last.in_time
    /\ last.result = "false"

\* the init processes of the container that are alive
LiveInits == {p \in Pids : Alive(p)}

\* C34: at any time at most one live init process belongs to the container
\* id: a create for an id whose state directory, FIFO or state.json exists
\* forks no second init and leaves the existing state as it is
C34_OneInitPerId ==
    /\ [](Cardinality(LiveInits) <= 1)
    /\ [][(Issued("create") /\ (fs.dir \/ fs.fifo \/ fs.state.exists)) =>
            (nextPid' = nextPid /\ fs'.state = fs.state)]_vars

\* two inits of the same id are alive and the state names the second one
C34_TwoInits ==
    /\ Cardinality(LiveInits) = 2
    /\ fs.state.exists
    /\ fs.state.pid = 2

\* C35: when delete returns after removing the state, the init named by the
\* state is not alive; without --force nothing is removed while kill(pid, 0)
\* finds the init, also when the persisted status is stopped already
C35_DeleteOnlyDeadContainers ==
    [][(Issued("delete") /\ fs.state.exists /\ ~fs'.state.exists) =>
          (fs.state.pid \in Pids => proc'[fs.state.pid].pc \in {"none", "dead"})]_vars

\* a delete has removed the state and the init named by it is still
\* waiting on the FIFO or running
C35_DeletedAlive ==
    /\ last.cmd = "delete"
    /\ last.ok
    /\ last.sigs = 0
    /\ ~fs.state.exists
    /\ \E p \in Pids : Alive(p)

\* C36: start always returns; for a container whose persisted status is
\* created and whose init has died it returns with an error instead of
\* blocking in the open of the sync FIFO for writing
C36_StartReturns ==
    [][Issued("start") =>
          /\ last'.returned
          /\ (fs.state.exists /\ fs.state.status = "created" /\ ~PidExists(fs.state.pid))
                => ~last'.ok]_vars

\* a start is blocked in open(fifo, O_WRONLY): the state says created and
\* names an init that is dead
C36_StartHangs ==
    /\ last.cmd = "start"
    /\ ~last.returned
    /\ fs.state.status = "created"
    /\ ~PidExists(fs.state.pid)

\* start_container came back to run without having written the FIFO byte
C37_StartFailedUnwritten ==
    /\ last.cmd = "start"
    /\ last.returned
    /\ ~last.ok
    /\ last.wrote = 0

\* C37: run ends when its start step fails: once start has returned without
\* writing the FIFO byte, run returns, and it leaves neither the init alive
\* nor the state directory
C37_RunEndsAfterFailedStart ==
    C37_StartFailedUnwritten ~> (last.cmd = "run" /\ LiveInits = {} /\ ~fs.dir)

\* run waits for an init that waits for the FIFO byte
C37_RunWaitsOnBlockedInit ==
    /\ C37_StartFailedUnwritten
    /\ fs.state.pid \in Pids
    /\ proc[fs.state.pid].pc = "waiting"
    /\ fs.dir

\* a state.json that exists holds one of the four persisted statuses and a
\* pid greater than 0
C38_PersistedWellFormed ==
    fs.state.exists =>
        /\ fs.state.status \in {"created", "running", "paused", "stopped"}
        /\ fs.state.pid > 0

\* a step from one state.json to another keeps the pid
C38_PidKept == fs.state.exists /\ fs'.state.exists => fs'.state.pid = fs.state.pid

\* C38: in every reachable state a state.json that exists has a status among
\* created, running, paused and stopped (never creating) and a pid greater
\* than 0, and no command changes the persisted pid after create
C38_PersistedStateStable ==
    /\ []C38_PersistedWellFormed
    /\ [][C38_PidKept]_vars

\* every command but create keeps the persisted pid
C38_PidKeptByOthers == [][~Issued("create") => C38_PidKept]_vars

\* a create has replaced the pid of an existing state.json
C38_PidReplaced ==
    /\ last.cmd = "create"
    /\ last.ok
    /\ fs.state.pid = 2
    /\ proc[1].pc # "none"

\* the save_state of a `state` command that runs next to other commands
StateSaves == stateCmd.pc = "saving" /\ stateCmd'.pc = "done"

\* C39: the load-then-save of a state command that runs concurrently with
\* another command does not undo that command: after a delete has completed
\* the state directory and state.json stay absent, and a status that a start,
\* pause, resume or kill wrote after the load is not overwritten by the stale
\* copy
C39_StateDoesNotUndo ==
    [][StateSaves =>
          /\ ~fs.state.exists => (~fs'.state.exists /\ fs'.dir = fs.dir)
          /\ (fs.state.exists /\ fs.state.status # stateCmd.state.status)
                => fs'.state.status = fs.state.status]_vars

\* a delete has removed the container and the state command has written
\* state.json again
C39_Resurrected ==
    /\ stateCmd.saved
    /\ last.cmd = "delete"
    /\ last.ok
    /\ fs.dir
    /\ fs.state.exists

====
